---- MODULE Spec2Model ----
(***************************************************************************)
(* The jail start protocol of iocage_lib/ioc_start.py (class IOCStart).    *)
(*                                                                         *)
(* One start of a jail is a process p that walks through the stages of     *)
(* IOCStart.__start_jail__ in source order.  Every external call (jail,    *)
(* ifconfig, sysrc, zfs, hooks, ...) is a step whose outcome is drawn from *)
(* the outcomes the call can have.  trace[p] is the history of what the    *)
(* start did: every external effect, every log entry that matters and the  *)
(* exception that ended it, in the order the code produced them.           *)
(*                                                                         *)
(* logit(level EXCEPTION) is the fatal level of the event log: it raises   *)
(* and so ends __start_jail__ (spec.md section 6, "Structured event log"). *)
(***************************************************************************)
EXTENDS Integers, Sequences, FiniteSets, TLC

\* Longest `interfaces` list (number of nic:bridge definitions).
MaxNics == 2

\* The starts of the one jail: a single start under Spec, two racing starts
\* under SpecRace.
Procs == {"A", "B"}

VARIABLES
    conf,       \* the jail's configuration, loaded at entry (self.conf / self.get)
    store,      \* the fields of the configuration store a start writes (self.set)
    jail,       \* the isolation primitive: is a jail named ioc-<uuid> up, who launched it
    pc,         \* pc[p]: the stage start p is about to execute
    trace,      \* trace[p]: history of effects, log entries and the final exception
    vnet_err,   \* vnet_err[p]: the error list start_network returned (<<>> is None)
    errors,     \* errors[p]: the error list start_network is collecting
    nic_i,      \* nic_i[p]: index into `interfaces` of the NIC start_network is at
    fatal_msg,  \* fatal_msg[p]: lines of the message of the validation error
    cmds,       \* cmds[p]: the interface, address and route commands start_network issued
    mac_call,   \* one call of __generate_mac_address_pair: its inputs and its result
    readback,   \* readback[p]: what the DHCP verification of start p read back
    host,       \* the host: its version, its default interfaces and its addresses
    artifact,   \* the parameter list in /var/run/jail.ioc-<uuid>.conf (<<>>: no file)
    rules,      \* the resource rules the host holds for the jail
    nic_log,    \* nic_log[p]: one entry per turn of the NIC loop of start_network
    alias_call, \* one call of check_aliases: its inputs and its result
    ng          \* the netgraph bridge of the jail's NICs and the add_ng_bridge_member call at work

vars == <<conf, store, jail, pc, trace, vnet_err, errors, nic_i, fatal_msg, cmds, mac_call,
          readback, host, artifact, rules, nic_log, alias_call, ng>>

----------------------------------------------------------------------------
\* Sequences helpers.
Last(s) == s[Len(s)]
Has(s, e) == \E i \in DOMAIN s : s[i] = e
Count(s, e) == Cardinality({i \in DOMAIN s : s[i] = e})
Index(s, e) == CHOOSE i \in DOMAIN s : s[i] = e /\ \A j \in DOMAIN s : s[j] = e => i <= j
Repeat(e, n) == [i \in 1..n |-> e]
RECURSIVE Concat(_)
Concat(ss) == IF ss = << >> THEN << >> ELSE Head(ss) \o Concat(Tail(ss))

----------------------------------------------------------------------------
\* Configuration values.

NicNames == <<"vnet0", "vnet1", "vnet2", "vnet3">>
NicSet == {NicNames[i] : i \in 1..MaxNics}

\* `interfaces`: "vnet0:bridge0", "vnet0:bridge0,vnet1:bridge1", ...
InterfaceLists == {[i \in 1..n |-> NicNames[i]] : n \in 1..MaxNics}

\* An address property is a comma separated list of entries "iface|ip" or "ip";
\* iface = "" is an entry without the "iface|" prefix.  The string "none" is
\* the single unprefixed entry "none".
NoneAddr == <<[iface |-> "", ip |-> "none"]>>
Ip4Choices == { NoneAddr,
                <<[iface |-> "vnet0", ip |-> "DHCP"]>>,
                <<[iface |-> "vnet0", ip |-> "10.0.0.5/24"]>> }
Ip6Choices == { NoneAddr, <<[iface |-> "vnet0", ip |-> "accept_rtadv"]>> }

\* defaultrouter and defaultrouter6
Gateways4 == {"none", "10.0.0.1"}
Gateways6 == {"none", "fd00::1"}

\* `'DHCP' in ip4_addr.upper()`, `'accept_rtadv' in ip6_addr`
HasIp(addrs, ip) == \E i \in DOMAIN addrs : addrs[i].ip = ip

\* vnet_default_interface: the sentinels, a host interface, a name the host lacks
HostInterfaces == {"em0"}
DefaultIfChoices == {"auto", "none", "em0", "lagg9"}

\* A persisted <nic>_mac: "none", or its whitespace/comma separated tokens.
MacNone == <<"none">>
MacChoices == { MacNone, <<"02ff60aabbcc", "0aff60aabbcc">>,
                <<"02ff60aabbcc", "0aff60aabbcc", "0eff60aabbcc">> }
MacGenerated == <<"mac_a", "mac_b">>

----------------------------------------------------------------------------
\* MAC pair generation (__generate_mac_address_pair, lines 1090-1168).

\* Python's &, | and ^ on non-negative integers, and <<.
RECURSIVE BitAnd(_, _)
BitAnd(a, b) ==
    IF a = 0 \/ b = 0 THEN 0
    ELSE (a % 2) * (b % 2) + 2 * BitAnd(a \div 2, b \div 2)

RECURSIVE BitOr(_, _)
BitOr(a, b) ==
    IF a = 0 THEN b ELSE IF b = 0 THEN a
    ELSE (IF a % 2 = 1 \/ b % 2 = 1 THEN 1 ELSE 0) + 2 * BitOr(a \div 2, b \div 2)

RECURSIVE BitXor(_, _)
BitXor(a, b) ==
    IF a = 0 THEN b ELSE IF b = 0 THEN a
    ELSE (((a % 2) + (b % 2)) % 2) + 2 * BitXor(a \div 2, b \div 2)

ShiftLeft(a, n) == a * 2^n

\* f'{byte:02x}': the hexadecimal digits of byte, at least two of them.
RECURSIVE HexDigits(_)
HexDigits(n) == IF n < 16 THEN << n >> ELSE HexDigits(n \div 16) \o << n % 16 >>

Format02x(byte) == IF byte < 16 THEN << 0, byte >> ELSE HexDigits(byte)

\* The NICs a pair is generated for are vnet0 .. vnet<MaxNicOffset>.
MaxNicOffset == 17

\* shaker.digest(2) and shaker.digest(5)[2:] of the jail's uuid, and the last
\* three bytes of the host interface's link address.
UuidHashBytes == << 255, 96 >>
UuidDevidBytes == << 170, 187, 204 >>
ParentDevidBytes == << 18, 52, 86 >>

\* Lines 1125-1141: the administered nibble and the device id of the parent.
nic_parent_admin_nibble(call) ==
    IF call.nic_parent = "none" THEN 0 ELSE call.parent_nibble

nic_parent_devid_bytes(call) ==
    IF call.nic_parent = "none" THEN UuidDevidBytes
    ELSE ParentDevidBytes

\* Lines 1153-1154.  & binds tighter than ^, which binds tighter than |.
\* Faulty variant: the locally-administered bit is folded into the XOR mask.
mac_a_admin_nibble_mask_first(p) == BitXor(p, BitOr(4, BitAnd(2, 15)))

mac_a_admin_nibble(p) == BitOr(BitXor(p, 4), BitAnd(2, 15))

mac_b_admin_nibble(p) == BitOr(BitXor(p, 8), BitAnd(2, 15))

\* Line 1162: `nic_offset & 0b1111 << 4`; << binds tighter than &.
nic_offset_bits(nic_offset) == BitAnd(nic_offset, ShiftLeft(15, 4))

\* Lines 1158-1168: the two addresses as strings of hexadecimal digits.
generate_mac_address_pair(call) ==
    LET p == nic_parent_admin_nibble(call)
        mac_base == UuidHashBytes \o nic_parent_devid_bytes(call)
        mac_a_bytes == << BitOr(nic_offset_bits(call.nic_offset), mac_a_admin_nibble(p)) >>
                       \o mac_base
        mac_b_bytes == << BitOr(nic_offset_bits(call.nic_offset), mac_b_admin_nibble(p)) >>
                       \o mac_base
    IN [ mac_a |-> Concat([i \in DOMAIN mac_a_bytes |-> Format02x(mac_a_bytes[i])]),
         mac_b |-> Concat([i \in DOMAIN mac_b_bytes |-> Format02x(mac_b_bytes[i])]) ]

\* The calls: every NIC index, parent "none" or a host interface whose link
\* address has any first-byte low nibble.
MacCalls ==
    { c \in [ nic_offset : 0..MaxNicOffset, nic_parent : {"none", "em0"},
              parent_nibble : 0..15, mac_a : {<< >>}, mac_b : {<< >>} ] :
        c.nic_parent = "none" => c.parent_nibble = 0 }

NoMacCall == [ nic_offset |-> 0, nic_parent |-> "none", parent_nibble |-> 0,
               mac_a |-> << >>, mac_b |-> << >> ]

GenerateMacPair ==
    /\ mac_call.mac_a = << >>
    /\ LET r == generate_mac_address_pair(mac_call) IN
         mac_call' = [mac_call EXCEPT !.mac_a = r.mac_a, !.mac_b = r.mac_b]
    /\ UNCHANGED <<conf, store, jail, pc, trace, vnet_err, errors, nic_i, fatal_msg, cmds, readback, host, artifact, rules, nic_log, alias_call, ng>>

----------------------------------------------------------------------------
\* The exceptions that end __start_jail__: logit(level EXCEPTION) entries and
\* Python exceptions no handler catches.
Fatal == { "EXCEPTION:already_running", "EXCEPTION:config", "raise:ValueError",
           "EXCEPTION:rtsold", "raise:zfs", "EXCEPTION:launch", "raise:OSError",
           "EXCEPTION:no_default_gateway", "EXCEPTION:no_such_interface",
           "EXCEPTION:mac_format", "EXCEPTION:vnet", "EXCEPTION:zfs_mount",
           "raise:resolv", "EXCEPTION:exec_start", "EXCEPTION:exec_poststart",
           "EXCEPTION:dhcp" }

Raises(evs) == evs # <<>> /\ Last(evs) \in Fatal

\* Faulty variant: the post-start hook runs before the start command.
StageOrderHookFirst == << "check_running", "hostid", "validate", "check_dhcp",
                          "check_rtsold", "mounts", "jail_zfs", "build", "launch",
                          "devlog", "network", "net_result", "zfs_attach", "resolv",
                          "poststart", "exec_start", "dhcp_verify", "rctl",
                          "last_started", "done" >>

\* The statements of __start_jail__ in source order; a stage is entered when
\* the one before it fell through.
StageOrder == << "check_running", "hostid", "validate", "check_dhcp",
                 "check_rtsold", "mounts", "jail_zfs", "build", "launch",
                 "devlog", "network", "net_result", "zfs_attach", "resolv",
                 "exec_start", "poststart", "dhcp_verify", "rctl",
                 "last_started", "done" >>

Succ(stage) == StageOrder[Index(StageOrder, stage) + 1]

\* Start p appends evs to its history and moves on: to `next`, or out of the
\* protocol when evs ends in an exception.  IOCStop(force) tears the jail
\* down; a successful `jail -c` brings it up.
Do(p, evs, next) ==
    /\ trace' = [trace EXCEPT ![p] = @ \o evs]
    /\ pc' = [pc EXCEPT ![p] = IF Raises(evs) THEN "failed" ELSE next]
    /\ jail' = IF Has(evs, "IOCStop") THEN [running |-> FALSE, owner |-> "none"]
               ELSE IF Has(evs, "jail_created") THEN [running |-> TRUE, owner |-> p]
               ELSE jail

----------------------------------------------------------------------------
\* Entry: the running-state query (lines 89-102).

\* Faulty variant: the entry check logs the condition and goes on.
OnAlreadyRunningLogOnly == << "ERROR:already_running" >>

OnAlreadyRunning == << "EXCEPTION:already_running" >>

CheckRunning(p) ==
    /\ pc[p] = "check_running"
    /\ IF jail.running
       THEN Do(p, OnAlreadyRunning, Succ("check_running"))
       ELSE Do(p, << >>, Succ("check_running"))
    /\ UNCHANGED <<conf, store, vnet_err, errors, nic_i, fatal_msg, cmds, mac_call, readback, host, artifact, rules, nic_log, alias_call, ng>>

\* hostid_strict_check (lines 104-114): a mismatch logs an ERROR and returns.
HostId(p) ==
    /\ pc[p] = "hostid"
    /\ \E hostid_strict_check \in BOOLEAN, hostid_matches \in BOOLEAN :
         IF hostid_strict_check /\ ~hostid_matches
         THEN Do(p, << "ERROR:hostid" >>, "returned")
         ELSE Do(p, << >>, Succ("hostid"))
    /\ UNCHANGED <<conf, store, vnet_err, errors, nic_i, fatal_msg, cmds, mac_call, readback, host, artifact, rules, nic_log, alias_call, ng>>

----------------------------------------------------------------------------
\* Validation of the property combinations (lines 151-187).

wants_dhcp(c) == c.dhcp \/ HasIp(c.ip4_addr, "DHCP")

\* Faulty variant: the bpf-without-vnet rule is left out.
prop_missing_msgs_no_bpf_rule(c) ==
    (IF wants_dhcp(c)
     THEN IF ~c.bpf THEN << "dhcp requires bpf!" >>
          ELSE IF ~c.vnet THEN << "dhcp requires vnet!" >>
          ELSE << >>
     ELSE << >>)
    \o (IF HasIp(c.ip6_addr, "accept_rtadv") /\ ~c.vnet
        THEN << "accept_rtadv requires vnet!" >> ELSE << >>)

prop_missing_msgs(c) ==
    (IF wants_dhcp(c)
     THEN IF ~c.bpf THEN << "dhcp requires bpf!" >>
          ELSE IF ~c.vnet THEN << "dhcp requires vnet!" >>
          ELSE << >>
     ELSE << >>)
    \o (IF HasIp(c.ip6_addr, "accept_rtadv") /\ ~c.vnet
        THEN << "accept_rtadv requires vnet!" >> ELSE << >>)
    \o (IF c.bpf /\ ~c.vnet THEN << "bpf requires vnet!" >> ELSE << >>)

Validate(p) ==
    /\ pc[p] = "validate"
    /\ LET msgs == prop_missing_msgs(conf) IN
         IF msgs # << >>
         THEN /\ fatal_msg' = [fatal_msg EXCEPT ![p] = msgs]
              /\ Do(p, << "EXCEPTION:config" >>, Succ("validate"))
         ELSE /\ UNCHANGED fatal_msg
              /\ Do(p, << >>, Succ("validate"))
    /\ UNCHANGED <<conf, store, vnet_err, errors, nic_i, cmds, mac_call, readback, host, artifact, rules, nic_log, alias_call, ng>>

----------------------------------------------------------------------------
\* Pre-launch side effects (lines 189-245).

\* __check_dhcp__ (lines 1192-1216): one sysrc per DHCP NIC.  Without the dhcp
\* flag the NICs are parsed from ip4_addr, and an entry without "iface|" does
\* not unpack (ValueError).
check_dhcp(c) ==
    IF c.dhcp THEN Repeat("sysrc", Len(c.interfaces))
    ELSE IF \E i \in DOMAIN c.ip4_addr : c.ip4_addr[i].iface = ""
         THEN << "raise:ValueError" >>
         ELSE Repeat("sysrc", Count([i \in DOMAIN c.ip4_addr |-> c.ip4_addr[i].ip], "DHCP"))

CheckDhcp(p) ==
    /\ pc[p] = "check_dhcp"
    /\ Do(p, IF wants_dhcp(conf) THEN check_dhcp(conf) ELSE << >>, Succ("check_dhcp"))
    /\ UNCHANGED <<conf, store, vnet_err, errors, nic_i, fatal_msg, cmds, mac_call, readback, host, artifact, rules, nic_log, alias_call, ng>>

\* __check_rtsold__ (lines 1218-1236)
check_rtsold(c) ==
    IF ~HasIp(c.ip6_addr, "accept_rtadv") THEN << "EXCEPTION:rtsold" >> ELSE << "sysrc" >>

CheckRtsold(p) ==
    /\ pc[p] = "check_rtsold"
    /\ \E rtsold \in BOOLEAN :
         Do(p, IF rtsold THEN check_rtsold(conf) ELSE << >>, Succ("check_rtsold"))
    /\ UNCHANGED <<conf, store, vnet_err, errors, nic_i, fatal_msg, cmds, mac_call, readback, host, artifact, rules, nic_log, alias_call, ng>>

\* procfs and linprocfs mounts (lines 195-215): the exit status of mount is not
\* looked at, and a failure to prepare the linprocfs mount point is swallowed.
\* "mount_failed" is a mount that exited non-zero (h.mount_fails: on this host
\* the mounts fail).
\* Faulty variant: a failed mount is fatal.
mount_checked(h) ==
    IF h.mount_fails THEN << "mount_failed", "EXCEPTION:launch" >> ELSE << "mount" >>

mount(h) == IF h.mount_fails THEN << "mount_failed" >> ELSE << "mount" >>

Mounts(p) ==
    /\ pc[p] = "mounts"
    /\ \E mount_procfs \in BOOLEAN, mount_linprocfs \in BOOLEAN, makedirs_ok \in BOOLEAN :
         Do(p, (IF mount_procfs THEN mount(host) ELSE << >>)
               \o (IF mount_linprocfs /\ makedirs_ok THEN mount(host) ELSE << >>),
            Succ("mounts"))
    /\ UNCHANGED <<conf, store, vnet_err, errors, nic_i, fatal_msg, cmds, mac_call, readback, host, artifact, rules, nic_log, alias_call, ng>>

\* jail_zfs datasets before launch (lines 217-245): create when missing, then
\* set jailed=on; a failing create or set is not caught.
JailZfs(p) ==
    /\ pc[p] = "jail_zfs"
    /\ IF conf.jail_zfs
       THEN \E exists \in BOOLEAN, create_ok \in BOOLEAN, set_ok \in BOOLEAN :
              Do(p, IF ~exists /\ ~create_ok THEN << "zfs_create", "raise:zfs" >>
                    ELSE (IF exists THEN << >> ELSE << "zfs_create" >>)
                         \o (IF set_ok THEN << "zfs_set" >> ELSE << "zfs_set", "raise:zfs" >>),
                 Succ("jail_zfs"))
       ELSE Do(p, << >>, Succ("jail_zfs"))
    /\ UNCHANGED <<conf, store, vnet_err, errors, nic_i, fatal_msg, cmds, mac_call, readback, host, artifact, rules, nic_log, alias_call, ng>>

\* Parameter assembly (lines 247-398).  A parameter is "key=value" or a bare
\* flag; a value is a comma separated list of entries "iface|ip", a scalar
\* being one entry without interface.  EmptyParam is the string "".
Scalar(v) == << [iface |-> "", ip |-> v] >>
Param(key, val) == [key |-> key, val |-> val]
Flag(key) == [key |-> key, val |-> << >>]
EmptyParam == [key |-> "", val |-> << >>]

\* The value of a 0/1 property: c.on holds the properties set to 1.
OnOff(c, prop) == Scalar(IF prop \in c.on THEN "1" ELSE "0")

\* The version gates (lines 249, 258, 269); versions are in tenths (9.3 is 93).
supports_fdescfs_tmpfs(version) == ~(version <= 93)

\* Faulty variant: the System-V flags are emitted on every version.
supports_sysv_always(version) == TRUE

supports_sysv(version) == ~(version <= 103)

supports_mlock_fusefs_vmm(version) == ~(version < 120)

\* Lines 711-722: the addresses of one family on the host's interfaces whose
\* name does not start with vnet, bridge, epair or pflog.  ifaddresses maps
\* each interface of the host to its addresses of the family.
StartsWithSkipped == {"bridge0", "epair0a", "vnet0.1", "pflog0"}
collect_current_ips(addrs_of) ==
    UNION { addrs_of[i] : i \in DOMAIN addrs_of \ StartsWithSkipped }

\* check_aliases (lines 695-731): without a default gateway of the family the
\* list is returned as it is; otherwise an entry without "iface|" that is not
\* an address of the host gets the default interface.
\* Faulty variant: every entry is bound to the default interface.
check_aliases_rebinding_all(ip_addrs, def_iface, current_ips) ==
    IF def_iface = "none" THEN ip_addrs
    ELSE [k \in DOMAIN ip_addrs |-> [iface |-> def_iface, ip |-> ip_addrs[k].ip]]

check_aliases(ip_addrs, def_iface, current_ips) ==
    IF def_iface = "none" THEN ip_addrs
    ELSE [k \in DOMAIN ip_addrs |->
            IF ip_addrs[k].iface = "" /\ ip_addrs[k].ip \notin current_ips
            THEN [iface |-> def_iface, ip |-> ip_addrs[k].ip]
            ELSE ip_addrs[k]]

\* Lines 278-313: the static parameters, or the vnet flag and one directive
\* per entry of vnet_interfaces.
\* Faulty variant: the vnet flag is emitted in both modes.
net_params_always_vnet(c, h) ==
    << Flag("vnet") >>
    \o [k \in DOMAIN c.vnet_interfaces |->
          Param("vnet.interface", Scalar(c.vnet_interfaces[k]))]

net_params(c, h) ==
    IF ~c.vnet
    THEN (IF c.ip4_addr # NoneAddr
          THEN << Param("ip4.addr", check_aliases(c.ip4_addr, h.def_iface4, collect_current_ips(h.ifaddresses4))) >>
          ELSE << >>)
         \o (IF c.ip6_addr # NoneAddr
             THEN << Param("ip6.addr", check_aliases(c.ip6_addr, h.def_iface6, collect_current_ips(h.ifaddresses6))) >>
             ELSE << >>)
         \o << Param("ip4.saddrsel", Scalar("conf")), Param("ip4", Scalar("conf")),
               Param("ip6.saddrsel", Scalar("conf")), Param("ip6", Scalar("conf")) >>
    ELSE << Flag("vnet") >>
         \o [k \in DOMAIN c.vnet_interfaces |->
               Param("vnet.interface", Scalar(c.vnet_interfaces[k]))]

\* Lines 355-370: the 0/1 parameters, the gated ones replaced by "" below
\* their gate.
parameters(c, h) ==
    << IF supports_fdescfs_tmpfs(h.version)
       THEN Param("mount.fdescfs", OnOff(c, "mount_fdescfs")) ELSE EmptyParam,
       IF supports_mlock_fusefs_vmm(h.version)
       THEN Param("allow.mlock", OnOff(c, "allow_mlock")) ELSE EmptyParam,
       IF supports_fdescfs_tmpfs(h.version)
       THEN Param("allow.mount.tmpfs", OnOff(c, "allow_mount_tmpfs")) ELSE EmptyParam,
       IF supports_mlock_fusefs_vmm(h.version)
       THEN Param("allow.mount.fusefs", OnOff(c, "allow_mount_fusefs")) ELSE EmptyParam,
       IF supports_mlock_fusefs_vmm(h.version)
       THEN Param("allow.vmm", OnOff(c, "allow_vmm")) ELSE EmptyParam,
       Param("allow.set_hostname", OnOff(c, "allow_set_hostname")),
       Param("mount.devfs", OnOff(c, "mount_devfs")),
       Param("allow.raw_sockets", OnOff(c, "allow_raw_sockets")),
       Param("allow.sysvipc", OnOff(c, "allow_sysvipc")),
       Param("allow.quotas", OnOff(c, "allow_quotas")),
       Param("allow.socket_af", OnOff(c, "allow_socket_af")),
       Param("allow.chflags", OnOff(c, "allow_chflags")),
       Param("allow.mount", OnOff(c, "allow_mount")),
       Param("allow.mount.devfs", OnOff(c, "allow_mount_devfs")),
       Param("allow.mount.nullfs", OnOff(c, "allow_mount_nullfs")),
       Param("allow.mount.procfs", OnOff(c, "allow_mount_procfs")),
       Param("allow.mount.zfs", OnOff(c, "allow_mount_zfs")) >>

\* `'1' in x` for a parameter of that list: no key holds the digit 1.
has_1(x) == x.val = Scalar("1")

\* Lines 372-398: net, the 0/1 parameters that hold a 1, and the rest,
\* without the empty strings.
start_parameters(c, h) ==
    SelectSeq(
        net_params(c, h)
        \o SelectSeq(parameters(c, h), has_1)
        \o << Param("name", Scalar("ioc-uuid")),
              IF supports_sysv(h.version) THEN Param("sysvmsg", Scalar("conf")) ELSE EmptyParam,
              IF supports_sysv(h.version) THEN Param("sysvsem", Scalar("conf")) ELSE EmptyParam,
              IF supports_sysv(h.version) THEN Param("sysvshm", Scalar("conf")) ELSE EmptyParam,
              Param("host.domainname", Scalar("conf")), Param("host.hostname", Scalar("conf")),
              Param("path", Scalar("path/root")), Param("securelevel", Scalar("conf")),
              Param("host.hostuuid", Scalar("uuid")), Param("devfs_ruleset", Scalar("ruleset")),
              Param("enforce_statfs", Scalar("conf")), Param("children.max", Scalar("conf")),
              Param("exec.prestart", Scalar("conf")), Param("exec.clean", Scalar("conf")),
              Param("exec.timeout", Scalar("conf")), Param("stop.timeout", Scalar("conf")),
              Param("mount.fstab", Scalar("path/fstab")), Flag("allow.dying"),
              Param("exec.consolelog", Scalar("log")), Flag("persist") >>,
        LAMBDA x : x # EmptyParam)

\* JailRuntimeConfiguration(uuid, start_parameters).sync_changes() (lines
\* 402-405): the file holds start_parameters.
Build(p) ==
    /\ pc[p] = "build"
    /\ artifact' = start_parameters(conf, host)
    /\ Do(p, << "sync_changes" >>, Succ("build"))
    /\ UNCHANGED <<conf, store, vnet_err, errors, nic_i, fatal_msg, cmds, mac_call, readback, host, rules, nic_log, alias_call, ng>>

----------------------------------------------------------------------------
\* Launch (lines 407-441): `jail -c` fails when a jail of this name is already
\* up, and may fail for any other reason.

\* Faulty variant: a failed launch is rolled back with a forced stop.
OnLaunchFailedWithStop == << "jail_c", "ERROR:start_failed", "IOCStop", "EXCEPTION:launch" >>

OnLaunchFailed == << "jail_c", "ERROR:start_failed", "EXCEPTION:launch" >>

OnLaunched == << "jail_c", "jail_created", "INFO:started_ok" >>

Launch(p) ==
    /\ pc[p] = "launch"
    /\ \E returncode \in {0, 1} :
         /\ jail.running => returncode = 1
         /\ Do(p, IF returncode # 0 THEN OnLaunchFailed ELSE OnLaunched, Succ("launch"))
    /\ UNCHANGED <<conf, store, vnet_err, errors, nic_i, fatal_msg, cmds, mac_call, readback, host, artifact, rules, nic_log, alias_call, ng>>

\* /dev/log symlink (lines 450-453): os.symlink is not guarded.
DevLog(p) ==
    /\ pc[p] = "devlog"
    /\ \E present \in BOOLEAN, symlink_ok \in BOOLEAN :
         Do(p, IF present THEN << >>
               ELSE IF symlink_ok THEN << "symlink" >> ELSE << "symlink", "raise:OSError" >>,
            Succ("devlog"))
    /\ UNCHANGED <<conf, store, vnet_err, errors, nic_i, fatal_msg, cmds, mac_call, readback, host, artifact, rules, nic_log, alias_call, ng>>

----------------------------------------------------------------------------
\* Network provisioning (start_network, lines 733-771, and what it calls).

\* get_default_gateway (lines 1238-1250): gw is the interface of the host's
\* default route, "none" when the host has no default route.
ResolveDefaultIf(default_if, gw) == IF default_if = "auto" THEN gw ELSE default_if

\* start_network_if_bridge / start_network_ng_bridge (lines 853-882, 936-959):
\* the events of ensuring the fabric and the error string returned ("" is None).
\* Only CalledProcessError is caught: if_bridge swallows it, netgraph returns it.
\* if_bridge runs the one command `ifconfig <bridge> create [addm <default_if>]`:
\* when it fails (the bridge is there already, or the interface cannot be
\* added) the interface is a member only if it was one before (was_member).
\* failed: a command was run and failed; member: the default interface is a
\* member of the bridge afterwards.
ensure_fabric(c, gw, cmd_ok, was_member) ==
    LET default_if == ResolveDefaultIf(c.vnet_default_interface, gw) IN
    IF c.vnet_default_interface = "auto" /\ gw = "none"
    THEN [evs |-> << "EXCEPTION:no_default_gateway" >>, err |-> "",
          failed |-> FALSE, member |-> FALSE]
    ELSE IF c.netgraph
    THEN IF default_if = "none"
         THEN [evs |-> << >>, err |-> "", failed |-> FALSE, member |-> FALSE]
         ELSE [evs |-> << "ngctl" >>, err |-> IF cmd_ok THEN "" ELSE "ngctl failed",
               failed |-> ~cmd_ok, member |-> cmd_ok \/ was_member]
    ELSE IF default_if # "none" /\ default_if \notin HostInterfaces
    THEN [evs |-> << "EXCEPTION:no_such_interface" >>, err |-> "",
          failed |-> FALSE, member |-> FALSE]
    ELSE [evs |-> << "ifconfig_bridge" >>, err |-> "", failed |-> ~cmd_ok,
          member |-> default_if # "none" /\ (cmd_ok \/ was_member)]

\* __start_generate_vnet_mac__ (lines 1170-1190): the persisted pair, or a
\* generated pair that is persisted at once; a persisted value that does not
\* unpack into two tokens is fatal.
\* Faulty variant: a pair is generated and persisted on every start.
start_generate_vnet_mac_always(mac) == [evs |-> << "set_mac" >>, mac |-> MacGenerated]

start_generate_vnet_mac(mac) ==
    IF mac = MacNone THEN [evs |-> << "set_mac" >>, mac |-> MacGenerated]
    ELSE IF Len(mac) = 2 THEN [evs |-> << >>, mac |-> mac]
    ELSE [evs |-> << "EXCEPTION:mac_format" >>, mac |-> mac]

\* start_network_vnet_iface (lines 961-1052): create and rename the pair, give
\* it its MAC, attach it and move it into the jail.  fail = "early" is a
\* command failing before the MAC is looked up, "late" one failing after.
\* used is the pair handed to `ifconfig link` (<<>>: not reached).
start_network_vnet_iface(mac, fail) ==
    LET m == start_generate_vnet_mac(mac) IN
    IF fail = "early"
    THEN [evs |-> << "ifconfig_create" >>, err |-> "create failed", mac |-> mac,
          used |-> << >>]
    ELSE IF Raises(m.evs)
    THEN [evs |-> << "ifconfig_create" >> \o m.evs, err |-> "", mac |-> mac, used |-> << >>]
    ELSE IF fail = "late"
    THEN [evs |-> << "ifconfig_create" >> \o m.evs \o << "ifconfig_link" >>,
          err |-> "link failed", mac |-> m.mac, used |-> m.mac]
    ELSE [evs |-> << "ifconfig_create" >> \o m.evs \o << "ifconfig_link", "ifconfig_vnet" >>,
          err |-> "", mac |-> m.mac, used |-> m.mac]

\* The entries of one family that start_network_interface_vnet configures for
\* nic (lines 805-823): with DHCP the list is replaced by one empty entry bound
\* to the NIC unless it holds accept_rtadv; "none" is skipped; an entry without
\* "iface|" goes to vnet0; entries of other NICs are skipped.
\* Faulty variant: entries of other NICs are not skipped.
bound_entries_no_skip(c, nic, addrs) ==
    LET subst == IF wants_dhcp(c) /\ ~HasIp(addrs, "accept_rtadv")
                 THEN << [iface |-> nic, ip |-> "''"] >> ELSE addrs
        owner(e) == IF e.iface = "" THEN "vnet0" ELSE e.iface
    IN IF subst = NoneAddr THEN << >>
       ELSE [k \in DOMAIN subst |-> [iface |-> owner(subst[k]), ip |-> subst[k].ip]]

bound_entries(c, nic, addrs) ==
    LET subst == IF wants_dhcp(c) /\ ~HasIp(addrs, "accept_rtadv")
                 THEN << [iface |-> nic, ip |-> "''"] >> ELSE addrs
        owner(e) == IF e.iface = "" THEN "vnet0" ELSE e.iface
    IN IF subst = NoneAddr THEN << >>
       ELSE SelectSeq([k \in DOMAIN subst |-> [iface |-> owner(subst[k]), ip |-> subst[k].ip]],
                      LAMBDA e : e.iface = nic)

\* re.search(r'\d+', iface)[0] for the jail-side name of a NIC ("epair<N>b",
\* or "vnet<N>.<jid>" under netgraph, lines 834-839 and 897).
NicDigits == [ vnet0 |-> "0", vnet1 |-> "1", vnet2 |-> "2", vnet3 |-> "3", vnet9 |-> "9" ]

\* Faulty variant: the route is wanted on every interface.
wants_defaultgw_any_iface(nic, defaultgw) == defaultgw # "none"

wants_defaultgw(nic, defaultgw) == NicDigits[nic] = "0" /\ defaultgw # "none"

\* Faulty variant: the static address is assigned although DHCP is wanted.
static_wanted_despite_dhcp(c, ip) == ip # "accept_rtadv"

static_wanted(c, ip) == ~wants_dhcp(c) /\ ip # "accept_rtadv"

\* start_network_vnet_addr (lines 884-934) for entry e and its iface, family ipv6,
\* gateway defaultgw: the address command and, on the interface of index 0
\* with a gateway, the default route; a failing address command skips the
\* route.  cmds are the commands issued, with their interface and family.
start_network_vnet_addr(c, e, defaultgw, ipv6, fail) ==
    LET addr == [op |-> "addr", iface |-> e.iface, ipv6 |-> ipv6, arg |-> << e.ip >>]
        route == [op |-> "route", iface |-> e.iface, ipv6 |-> ipv6, arg |-> << defaultgw >>]
    IN IF ~static_wanted(c, e.ip) THEN [evs |-> << >>, cmds |-> << >>, err |-> ""]
       ELSE IF fail = "addr"
       THEN [evs |-> << "ifconfig_addr" >>, cmds |-> << addr >>, err |-> "addr failed"]
       ELSE IF ~wants_defaultgw(e.iface, defaultgw)
       THEN [evs |-> << "ifconfig_addr" >>, cmds |-> << addr >>, err |-> ""]
       ELSE [evs |-> << "ifconfig_addr", "route_add" >>, cmds |-> << addr, route >>,
             err |-> IF fail = "route" THEN "route failed" ELSE ""]

\* The members of the bridge before the start (h.bridge_members) and after the
\* fabric was ensured, in the order get_bridge_members / get_ng_bridge_members
\* list them (lines 1252-1259, 1315-1331).
is_bridge_member(c, h, gw) ==
    Has(h.bridge_members, ResolveDefaultIf(c.vnet_default_interface, gw))
fabric_members(c, h, gw, member) ==
    h.bridge_members
    \o (IF member /\ ~is_bridge_member(c, h, gw)
        THEN << ResolveDefaultIf(c.vnet_default_interface, gw) >> ELSE << >>)

\* find_if_bridge_mtu / find_ng_bridge_mtu (lines 1261-1270, 1337-1350): "1500"
\* for a bridge without members, else the MTU of its first member.
find_bridge_mtu(h, members) ==
    IF members = << >> THEN "1500" ELSE h.mtu[members[1]]

\* `if err: errors.append(err)` (lines 798-799, 828-829, 843-844)
\* Faulty variant: the error is dropped.
ErrListDropping(err) == << >>

ErrList(err) == IF err = "" THEN << >> ELSE << err >>

\* start_network_interface_vnet for one nic definition (lines 773-851).
\* fail names the command of this NIC that fails, if any.  The interface pair
\* is created at the first entry bound to the NIC (`ifaces` starts empty in
\* every call).  log is the account of the call: the NIC, the backend, the
\* default interface and whether it is a member of the bridge afterwards,
\* whether the fabric command failed, how many of the pair, address and route
\* commands failed, and the errors returned.
start_network_interface_vnet(c, h, nic, mac, gw, fail) ==
    LET f == ensure_fabric(c, gw, fail # "fabric", is_bridge_member(c, h, gw))
        es4 == bound_entries(c, nic, c.ip4_addr)
        es6 == bound_entries(c, nic, c.ip6_addr)
        i == start_network_vnet_iface(mac, fail)
        create == [op |-> "create", iface |-> nic, ipv6 |-> FALSE, arg |-> i.used]
        a == [k \in DOMAIN es4 |->
                start_network_vnet_addr(c, es4[k], c.defaultrouter, FALSE, fail)]
             \o [k \in DOMAIN es6 |->
                   start_network_vnet_addr(c, es6[k], c.defaultrouter6, TRUE, fail)]
        a_evs == Concat([k \in DOMAIN a |-> a[k].evs])
        a_cmds == Concat([k \in DOMAIN a |-> a[k].cmds])
        a_errs == Concat([k \in DOMAIN a |-> ErrList(a[k].err)])
        a_failed == Cardinality({k \in DOMAIN a : a[k].err # ""})
        log(raised, failed, errs) ==
            [nic |-> nic, netgraph |-> c.netgraph,
             default_if |-> ResolveDefaultIf(c.vnet_default_interface, gw),
             member |-> f.member, fabric_failed |-> f.failed, raised |-> raised,
             failed |-> failed, errs |-> errs,
             mtu |-> IF raised \/ a = << >> \/ fail = "early" THEN ""
                     ELSE find_bridge_mtu(h, fabric_members(c, h, gw, f.member))]
    IN IF Raises(f.evs)
       THEN [evs |-> f.evs, cmds |-> << >>, errs |-> << >>, mac |-> mac,
             log |-> log(TRUE, 0, << >>)]
       ELSE IF a = << >>
       THEN [evs |-> f.evs, cmds |-> << >>, errs |-> ErrList(f.err), mac |-> mac,
             log |-> log(FALSE, 0, ErrList(f.err))]
       ELSE IF Raises(i.evs)
       THEN [evs |-> f.evs \o i.evs, cmds |-> << create >>, errs |-> << >>, mac |-> mac,
             log |-> log(TRUE, 0, << >>)]
       ELSE [evs |-> f.evs \o i.evs \o a_evs, cmds |-> << create >> \o a_cmds,
             errs |-> ErrList(f.err) \o ErrList(i.err) \o a_errs,
             mac |-> i.mac,
             log |-> log(FALSE, (IF i.err # "" THEN 1 ELSE 0) + a_failed,
                         ErrList(f.err) \o ErrList(i.err) \o a_errs)]

\* start_network up to the NIC loop (lines 733-762): nothing at all without
\* vnet; otherwise the jid, the address properties and `interfaces` are read
\* ("get:net_config"), and an explicit vnet_default_interface the host lacks
\* ends the call with one error.  `go` tells whether the NIC loop is entered.
\* Faulty variant: the configuration is read before vnet is looked at.
start_network_entry_reading_first(c) ==
    IF ~c.vnet
    THEN [evs |-> << "get:net_config" >>, errs |-> << >>, go |-> FALSE]
    ELSE IF c.vnet_default_interface \notin {"auto", "none"} \cup HostInterfaces
    THEN [evs |-> << "get:net_config" >>, errs |-> << "vnet_default_interface" >>, go |-> FALSE]
    ELSE [evs |-> << "get:net_config" >>, errs |-> << >>, go |-> TRUE]

\* Faulty variant: vnet_default_interface is not looked at.
start_network_entry_unchecked_default_if(c) ==
    IF ~c.vnet
    THEN [evs |-> << >>, errs |-> << >>, go |-> FALSE]
    ELSE [evs |-> << "get:net_config" >>, errs |-> << >>, go |-> TRUE]

start_network_entry(c) ==
    IF ~c.vnet
    THEN [evs |-> << >>, errs |-> << >>, go |-> FALSE]
    ELSE IF c.vnet_default_interface \notin {"auto", "none"} \cup HostInterfaces
    THEN [evs |-> << "get:net_config" >>, errs |-> << "vnet_default_interface" >>, go |-> FALSE]
    ELSE [evs |-> << "get:net_config" >>, errs |-> << >>, go |-> TRUE]

StartNetwork(p) ==
    /\ pc[p] = "network"
    /\ LET r == start_network_entry(conf)
       IN /\ vnet_err' = [vnet_err EXCEPT ![p] = r.errs]
          /\ Do(p, r.evs, IF r.go THEN "net_nic" ELSE Succ("network"))
    /\ nic_i' = [nic_i EXCEPT ![p] = 1]
    /\ UNCHANGED <<conf, store, errors, fatal_msg, cmds, mac_call, readback, host, artifact, rules, nic_log, alias_call, ng>>

\* One turn of the NIC loop of start_network (lines 764-771); after the last
\* NIC the collected errors are returned.
NetNic(p) ==
    /\ pc[p] = "net_nic"
    /\ \E gw \in {"none"} \cup HostInterfaces,
          fail \in {"nothing", "fabric", "early", "late", "addr", "route"} :
       \E r \in { start_network_interface_vnet(conf, host, conf.interfaces[nic_i[p]],
                       store.mac[conf.interfaces[nic_i[p]]], gw, fail) } :
         LET nic == conf.interfaces[nic_i[p]]
             last == nic_i[p] = Len(conf.interfaces)
         IN /\ Do(p, r.evs, IF last THEN Succ("network") ELSE "net_nic")
            /\ errors' = [errors EXCEPT ![p] = @ \o r.errs]
            /\ vnet_err' = IF last /\ ~Raises(r.evs)
                           THEN [vnet_err EXCEPT ![p] = errors'[p]] ELSE vnet_err
            /\ store' = [store EXCEPT !.mac[nic] = r.mac]
            /\ cmds' = [cmds EXCEPT ![p] = @ \o r.cmds]
            /\ nic_log' = [nic_log EXCEPT ![p] = Append(@, r.log)]
    /\ nic_i' = [nic_i EXCEPT ![p] = @ + 1]
    /\ UNCHANGED <<conf, fatal_msg, mac_call, readback, host, artifact, rules, alias_call, ng>>

\* The verdict on provisioning (lines 457-489); the account of the NIC turns
\* ends with the call it belongs to.
OnVnetFailed == << "ERROR:vnet_failed", "IOCStop", "EXCEPTION:vnet" >>

NetResult(p) ==
    /\ pc[p] = "net_result"
    /\ Do(p, IF vnet_err[p] = << >> /\ conf.vnet THEN << "INFO:vnet_ok" >>
             ELSE IF vnet_err[p] # << >> /\ conf.vnet THEN OnVnetFailed
             ELSE << >>,
          Succ("net_result"))
    /\ nic_log' = [nic_log EXCEPT ![p] = << >>]
    /\ UNCHANGED <<conf, store, vnet_err, errors, nic_i, fatal_msg, cmds, mac_call, readback, host, artifact, rules, alias_call, ng>>

----------------------------------------------------------------------------
\* After provisioning (lines 491-693).

\* jail_zfs datasets after launch (lines 491-530): zfs list, zfs jail and the
\* mounts inside the jail; none of their failures is followed by a stop.
ZfsAttach(p) ==
    /\ pc[p] = "zfs_attach"
    /\ IF conf.jail_zfs
       THEN \E jail_ok \in BOOLEAN, mount_ok \in BOOLEAN :
              Do(p, IF ~jail_ok THEN << "zfs_jail", "raise:zfs" >>
                    ELSE IF ~mount_ok THEN << "zfs_jail", "EXCEPTION:zfs_mount" >>
                    ELSE << "zfs_jail" >>,
                 Succ("zfs_attach"))
       ELSE Do(p, << >>, Succ("zfs_attach"))
    /\ UNCHANGED <<conf, store, vnet_err, errors, nic_i, fatal_msg, cmds, mac_call, readback, host, artifact, rules, nic_log, alias_call, ng>>

\* start_generate_resolv and start_copy_localtime (lines 1054-1088), for the
\* resolver "none" (copy the host's file): a failing copy is not caught.
Resolv(p) ==
    /\ pc[p] = "resolv"
    /\ \E copy_ok \in BOOLEAN :
         Do(p, IF copy_ok THEN << "resolv" >> ELSE << "resolv", "raise:resolv" >>,
            Succ("resolv"))
    /\ UNCHANGED <<conf, store, vnet_err, errors, nic_i, fatal_msg, cmds, mac_call, readback, host, artifact, rules, nic_log, alias_call, ng>>

\* exec_start inside the jail (lines 535-573)
OnExecStartFailed == << "exec_start", "IOCStop", "EXCEPTION:exec_start" >>

ExecStart(p) ==
    /\ pc[p] = "exec_start"
    /\ \E ok \in BOOLEAN :
         Do(p, IF ok THEN << "exec_start", "INFO:services_ok" >> ELSE OnExecStartFailed,
            Succ("exec_start"))
    /\ UNCHANGED <<conf, store, vnet_err, errors, nic_i, fatal_msg, cmds, mac_call, readback, host, artifact, rules, nic_log, alias_call, ng>>

\* exec_poststart (lines 575-604)
OnPoststartFailed == << "exec_poststart", "IOCStop", "EXCEPTION:exec_poststart" >>

PostStart(p) ==
    /\ pc[p] = "poststart"
    /\ \E poststart_error \in BOOLEAN :
         Do(p, IF poststart_error THEN OnPoststartFailed
               ELSE << "exec_poststart", "INFO:poststart_ok" >>,
            Succ("poststart"))
    /\ UNCHANGED <<conf, store, vnet_err, errors, nic_i, fatal_msg, cmds, mac_call, readback, host, artifact, rules, nic_log, alias_call, ng>>

\* DHCP verification (lines 606-657).  `ifconfig <iface> inet` in the jail
\* exits non-zero (CalledProcessError), or prints too few lines or fields
\* (IndexError), or a third line whose fourth field is not a hexadecimal
\* number (ValueError from int(hexmask, 16)), or an inet line, whose address
\* is read back as its four octets.
NotRead == [out |-> "not_run", ip4_addr |-> << >>]

DhcpReadbacks ==
    [ out : {"ok"}, ip4_addr : { <<10, 0, 0, 7>>, <<0, 0, 0, 0>>, <<10, 0, 0, 0>> } ]
    \cup [ out : {"CalledProcessError", "IndexError", "ValueError"}, ip4_addr : { << >> } ]

\* `'0.0.0.0' in addr` for addr = "<o1>.<o2>.<o3>.<o4>/<cidr>": a substring
\* test, true when the last three octets are 0 and the first ends in the digit 0.
zero_in_addr(ip4_addr) ==
    ip4_addr[1] % 10 = 0 /\ ip4_addr[2] = 0 /\ ip4_addr[3] = 0 /\ ip4_addr[4] = 0

OnDhcpFailed == << "dhcp_check", "IOCStop", "EXCEPTION:dhcp" >>

\* Lines 632-637: the handler catches CalledProcessError and IndexError.
failed_dhcp(rb) ==
    IF rb.out = "ok" THEN zero_in_addr(rb.ip4_addr)
    ELSE rb.out \in {"CalledProcessError", "IndexError"}

\* The name the interface of a NIC has inside the jail (start_network_vnet_iface,
\* lines 973-996 and 1035-1041): "<nic>.<jid>" with netgraph, "epair<N>b" for
\* vnet<N> with if_bridge.  A name is the sequence of its parts.
jail_iface(c, nic) ==
    IF c.netgraph THEN << nic, ".", "jid" >> ELSE << "epair", NicDigits[nic], "b" >>

\* The interface the verification inspects (lines 610-615): the first NIC of
\* `interfaces`, vnet<N> read as epair<N>b.
dhcp_interface(c) == << "epair", NicDigits[c.interfaces[1]], "b" >>

\* `ifconfig <interface> inet` in the jail exits non-zero when the jail has
\* no interface of that name.
dhcp_readbacks(c) ==
    IF dhcp_interface(c) = jail_iface(c, c.interfaces[1]) THEN DhcpReadbacks
    ELSE { rb \in DhcpReadbacks : rb.out = "CalledProcessError" }

DhcpVerify(p) ==
    /\ pc[p] = "dhcp_verify"
    /\ IF vnet_err[p] = << >> /\ conf.vnet /\ wants_dhcp(conf)
       THEN \E rb \in dhcp_readbacks(conf) :
              /\ readback' = [readback EXCEPT ![p] = rb]
              /\ Do(p, IF rb.out = "ValueError" THEN << "dhcp_check", "raise:ValueError" >>
                       ELSE IF failed_dhcp(rb) THEN OnDhcpFailed
                       ELSE << "dhcp_check", "INFO:dhcp_address" >>,
                    Succ("dhcp_verify"))
       ELSE /\ Do(p, << >>, Succ("dhcp_verify"))
            /\ UNCHANGED readback
    /\ UNCHANGED <<conf, store, vnet_err, errors, nic_i, fatal_msg, cmds, mac_call, host, artifact, rules, nic_log, alias_call, ng>>

\* Resource rules (lines 659-689): with at least one rctl property set, the
\* jail's rules are removed and the selected ones applied in one call
\* ("rctl_rejected": the call returned rejected rules); the rejected ones are
\* reported with logit level INFO.  `rules` holds "old" for a rule that was
\* there before the start and "new" for a rule this start applied.
OnRctlFailed == << "INFO:rctl_failed" >>

remove_rctl_rules(rs) == {}
set_rctl_rules(rs, failed) == IF failed THEN rs ELSE rs \cup {"new"}

Rctl(p) ==
    /\ pc[p] = "rctl"
    /\ \E rctl_keys \in BOOLEAN, failed \in BOOLEAN :
         /\ Do(p, IF rctl_keys
                  THEN << "rctl_remove", "INFO:setting_rctl", "rctl_set" >>
                       \o (IF failed THEN << "rctl_rejected" >> \o OnRctlFailed ELSE << >>)
                  ELSE << >>,
               Succ("rctl"))
         /\ rules' = IF rctl_keys THEN set_rctl_rules(remove_rctl_rules(rules), failed)
                     ELSE rules
    /\ UNCHANGED <<conf, store, vnet_err, errors, nic_i, fatal_msg, cmds, mac_call, readback, host, artifact, nic_log, alias_call, ng>>

\* self.set("last_started=...") (lines 691-693)
\* Faulty variant: last_started is written twice.
OnSuccessTwice == << "set_last_started", "set_last_started" >>

OnSuccess == << "set_last_started" >>

LastStarted(p) ==
    /\ pc[p] = "last_started"
    /\ Do(p, OnSuccess, Succ("last_started"))
    /\ store' = [store EXCEPT !.last_started = @ + Count(OnSuccess, "set_last_started")]
    /\ UNCHANGED <<conf, vnet_err, errors, nic_i, fatal_msg, cmds, mac_call, readback, host, artifact, rules, nic_log, alias_call, ng>>

----------------------------------------------------------------------------
\* The configurations a start is run on.  The vnet-only properties
\* (interfaces, vnet_default_interface, netgraph) leave their defaults only on
\* configurations that pass validation with vnet on.
DefaultNet(c) ==
    /\ c.interfaces = << "vnet0" >>
    /\ c.vnet_default_interface = "auto"
    /\ ~c.netgraph

\* The netgraph bridge (lines 1305-1331, 1386-1449).  link<k> of the node
\* named <bridge> is free or holds a member; a bridge node made by mkpeer has
\* no name until `ngctl name` gives it one.

\* Link indices the bridge node has; a connect beyond them fails.
MaxLink == 4
LinkIdx == 0..(MaxLink - 1)

NoCall == [ pc |-> "idle", iface |-> "", nodetype |-> "", branch |-> "",
            start |-> 0, nextlink |-> 0, slots |-> << >> ]

\* exists: a node named <bridge> exists; links: its hooks; every_busy: getstats
\* answers for every index; unnamed: bridge nodes without a name; todo: the
\* add_ng_bridge_member calls to come; turn: the NIC turn they belong to;
\* call: the call at work; log: the mkpeer, connect and name commands that
\* were run; results: how each call ended.
NgIdle ==
    [ exists |-> FALSE, links |-> [k \in LinkIdx |-> "free"], every_busy |-> FALSE,
      unnamed |-> 0, todo |-> << >>, turn |-> 0, call |-> NoCall,
      log |-> << >>, results |-> << >> ]

\* `ngctl msg <bridge>: getstats <k>` succeeds (exits zero).
getstats(g, k) == g.every_busy \/ (g.exists /\ k \in LinkIdx /\ g.links[k] # "free")

\* One turn of the loop of get_ng_bridge_nextlink (lines 1305-1313).
\* Faulty variant: the index is not advanced.
get_ng_bridge_nextlink_retrying(g, nextlink) ==
    IF getstats(g, nextlink) THEN [returned |-> FALSE, nextlink |-> nextlink]
    ELSE [returned |-> TRUE, nextlink |-> nextlink]

\* Faulty variant: the start index is returned without a probe.
get_ng_bridge_nextlink_unprobed(g, nextlink) == [returned |-> TRUE, nextlink |-> nextlink]

get_ng_bridge_nextlink(g, nextlink) ==
    IF getstats(g, nextlink) THEN [returned |-> FALSE, nextlink |-> nextlink + 1]
    ELSE [returned |-> TRUE, nextlink |-> nextlink]

\* exists_ng_bridge_member (lines 1333-1335)
exists_ng_bridge_member(g, iface) == \E k \in LinkIdx : g.links[k] = iface

NgFrame ==
    UNCHANGED <<conf, store, jail, pc, trace, vnet_err, errors, nic_i, fatal_msg, cmds,
                mac_call, readback, host, artifact, rules, nic_log, alias_call>>

Cmd(op, iface, hook, link, fresh) ==
    [op |-> op, iface |-> iface, hook |-> hook, link |-> link, fresh |-> fresh]
Result(c, slots, outcome) ==
    [iface |-> c.iface, nodetype |-> c.nodetype, branch |-> c.branch,
     slots |-> slots, outcome |-> outcome]
Return(g, c, slots, outcome) ==
    [g EXCEPT !.call = NoCall, !.results = Append(@, Result(c, slots, outcome))]

\* add_ng_bridge_member, lines 1401-1407: the node type, the two messages to
\* an ether node, and the start of the first probe.
NgBegin ==
    /\ ng.call.pc = "idle" /\ ng.todo # << >>
    /\ LET m == Head(ng.todo)
           c == [NoCall EXCEPT !.iface = m.iface, !.nodetype = m.nodetype]
       IN \E ok \in BOOLEAN :
            /\ m.nodetype # "ether" => ok
            /\ ng' = IF ~ok THEN [Return(ng, c, << >>, "error") EXCEPT !.todo = Tail(@)]
                     ELSE [ng EXCEPT
                             !.todo = Tail(@),
                             !.call = [c EXCEPT !.pc = "probe1"],
                             !.log = IF m.nodetype = "ether"
                                     THEN @ \o << Cmd("msg", m.iface, "setpromisc", 0, TRUE),
                                                  Cmd("msg", m.iface, "setautosrc", 0, TRUE) >>
                                     ELSE @]
    /\ NgFrame

\* One probe.  The index is capped at MaxLink: when every index answers, the
\* loop stays there.
NgProbe ==
    /\ ng.call.pc \in {"probe1", "probe2"}
    /\ LET r == get_ng_bridge_nextlink(ng, ng.call.nextlink) IN
         /\ r.returned \/ r.nextlink <= MaxLink
         /\ ng' = [ng EXCEPT
                     !.call.nextlink = r.nextlink,
                     !.call.pc = IF ~r.returned THEN @
                                 ELSE IF @ = "probe1" THEN "attach1" ELSE "attach2",
                     !.call.branch = IF r.returned /\ ng.call.pc = "probe1"
                                     THEN (IF ng.exists THEN "exists" ELSE "create")
                                     ELSE @]
    /\ NgFrame

\* Lines 1408-1449 up to the second probe.  ok: the command exits zero; a
\* connect to a link the node does not have fails.
NgAttach1 ==
    /\ ng.call.pc = "attach1"
    /\ LET c == ng.call
           li == c.nextlink
       IN IF c.branch = "exists" /\ exists_ng_bridge_member(ng, c.iface)
          THEN ng' = Return(ng, c, << >>, "already")
          ELSE \E ok \in BOOLEAN :
                 /\ (c.branch = "exists" /\ li \notin LinkIdx) => ~ok
                 /\ IF ~ok THEN ng' = Return(ng, c, << >>, "error")
                    ELSE IF c.branch = "exists"
                    THEN IF c.nodetype = "ether"
                         THEN ng' = [ng EXCEPT
                                       !.links[li] = c.iface,
                                       !.log = Append(@, Cmd("connect", c.iface, "lower", li,
                                                             ng.links[li] = "free")),
                                       !.call.pc = "probe2", !.call.slots = << li >>,
                                       !.call.start = li + 1, !.call.nextlink = li + 1]
                         ELSE ng' = [Return(ng, c, Append(c.slots, li), "attached") EXCEPT
                                       !.links[li] = c.iface,
                                       !.log = Append(@, Cmd("connect", c.iface, "ether", li,
                                                             ng.links[li] = "free"))]
                    ELSE IF c.nodetype = "ether"
                    THEN ng' = [ng EXCEPT
                                  !.log = Append(@, Cmd("mkpeer", c.iface, "lower", li, TRUE)),
                                  !.call.pc = "probe2", !.call.slots = << li >>,
                                  !.call.start = li + 1, !.call.nextlink = li + 1]
                    ELSE ng' = [Return(ng, c, Append(c.slots, li), "attached") EXCEPT
                                  !.unnamed = @ + 1,
                                  !.log = Append(@, Cmd("mkpeer", c.iface, "ether", li, TRUE))]
    /\ NgFrame

\* Lines 1419-1426 and 1436-1443: the upper hook of an ether member, and the
\* name of a bridge node that was just made.
NgAttach2 ==
    /\ ng.call.pc = "attach2"
    /\ LET c == ng.call
           li == c.nextlink
       IN \E ok \in BOOLEAN :
            /\ li \notin LinkIdx => ~ok
            /\ IF ~ok
               THEN ng' = [Return(ng, c, c.slots, "error") EXCEPT
                             !.unnamed = IF c.branch = "create" THEN @ + 1 ELSE @]
               ELSE IF c.branch = "exists"
               THEN ng' = [Return(ng, c, Append(c.slots, li), "attached") EXCEPT
                             !.links[li] = c.iface,
                             !.log = Append(@, Cmd("connect", c.iface, "upper", li,
                                                   ng.links[li] = "free"))]
               ELSE ng' = [Return(ng, c, Append(c.slots, li), "attached") EXCEPT
                             !.exists = TRUE,
                             !.links = [k \in LinkIdx |->
                                          IF k \in {c.slots[1], li} THEN c.iface ELSE "free"],
                             !.log = @ \o << Cmd("connect", c.iface, "upper", li, TRUE),
                                             Cmd("name", c.iface, "lower", li, TRUE) >>]
    /\ NgFrame

NextNg == NgBegin \/ NgProbe \/ NgAttach1 \/ NgAttach2

\* The name of the netgraph node of a jail's interface (line 999): the
\* interface name "<nic>.<jid>" with "_" for ".".
iface_ng_node == [ vnet0 |-> "vnet0_jid", vnet1 |-> "vnet1_jid",
                   vnet2 |-> "vnet2_jid", vnet3 |-> "vnet3_jid" ]

\* The add_ng_bridge_member calls of one NIC turn of a netgraph jail: the
\* default host interface from start_network_ng_bridge (lines 936-959) unless
\* it is `none`, then the jail's interface from start_network_vnet_iface
\* (line 1020) when the NIC has an address entry.
turn_calls(c, nic, default_if) ==
    (IF default_if = "none" THEN << >>
     ELSE << [iface |-> default_if, nodetype |-> "ether"] >>)
    \o (IF bound_entries(c, nic, c.ip4_addr) \o bound_entries(c, nic, c.ip6_addr) = << >>
        THEN << >>
        ELSE << [iface |-> iface_ng_node[nic], nodetype |-> "eiface"] >>)

RECURSIVE start_calls(_, _)
start_calls(c, i) ==
    IF i > Len(c.interfaces) THEN << >>
    ELSE turn_calls(c, c.interfaces[i], c.vnet_default_interface) \o start_calls(c, i + 1)

\* The 0/1 properties that are 1 on a jail created with the defaults, and a
\* host of the current release whose default route leaves through em0, on
\* which mount works and the bridge of the jail's NICs has no member yet.
\* mtu is the MTU `ifconfig <member>` prints for each possible member.
DefaultOn == {"mount_devfs", "allow_raw_sockets"}
HostMtu == [em0 |-> "1500", em1 |-> "9000"]
DefaultHost ==
    [ version |-> 120, def_iface4 |-> "em0", def_iface6 |-> "none",
      ifaddresses4 |-> [em0 |-> {"192.168.1.2"}, bridge0 |-> {}],
      ifaddresses6 |-> [em0 |-> {}, bridge0 |-> {}],
      mount_fails |-> FALSE, bridge_members |-> << >>, mtu |-> HostMtu ]
NoNicLog == [p \in Procs |-> << >>]
NoAliasCall == [ ip_addrs |-> << >>, mode |-> "4", called |-> FALSE, out |-> << >> ]

Configs ==
    { c \in [ vnet : BOOLEAN, dhcp : BOOLEAN, bpf : BOOLEAN,
              ip4_addr : Ip4Choices, ip6_addr : Ip6Choices,
              jail_zfs : BOOLEAN, interfaces : InterfaceLists,
              vnet_default_interface : DefaultIfChoices, netgraph : BOOLEAN,
              defaultrouter : {"none"}, defaultrouter6 : {"none"},
              on : {DefaultOn}, vnet_interfaces : {<< >>} ] :
        \/ DefaultNet(c)
        \/ c.vnet /\ c.bpf /\ c.ip6_addr = NoneAddr /\ ~c.jail_zfs }

Stores == { s \in [ mac : [NicSet -> MacChoices], last_started : {0} ] : TRUE }

Start == [p \in Procs |-> "check_running"]

InitCommon ==
    /\ conf \in Configs
    /\ store \in Stores
    /\ \A n \in NicSet : (~conf.vnet \/ ~Has(conf.interfaces, n)) => store.mac[n] = MacNone
    /\ trace = [p \in Procs |-> << >>]
    /\ vnet_err = [p \in Procs |-> << >>]
    /\ errors = [p \in Procs |-> << >>]
    /\ nic_i = [p \in Procs |-> 1]
    /\ fatal_msg = [p \in Procs |-> << >>]
    /\ cmds = [p \in Procs |-> << >>]
    /\ readback = [p \in Procs |-> NotRead]
    /\ host = DefaultHost
    /\ artifact = << >>
    /\ rules = {}
    /\ nic_log = NoNicLog
    /\ alias_call = NoAliasCall
    /\ ng = NgIdle

\* One start ("A") of a jail that is up or down; "B" never starts.
Init ==
    /\ InitCommon
    /\ jail \in { [running |-> FALSE, owner |-> "none"], [running |-> TRUE, owner |-> "earlier"] }
    /\ pc = [Start EXCEPT !["B"] = "idle"]
    /\ mac_call = NoMacCall

Step(p) ==
    \/ CheckRunning(p) \/ HostId(p) \/ Validate(p) \/ CheckDhcp(p) \/ CheckRtsold(p)
    \/ Mounts(p) \/ JailZfs(p) \/ Build(p) \/ Launch(p) \/ DevLog(p)
    \/ StartNetwork(p) \/ NetNic(p) \/ NetResult(p) \/ ZfsAttach(p) \/ Resolv(p)
    \/ ExecStart(p) \/ PostStart(p) \/ DhcpVerify(p) \/ Rctl(p) \/ LastStarted(p)

Next == \E p \in Procs : Step(p)

Spec == Init /\ [][Next]_vars

\* Two starts of the same jail, interleaved at the granularity of the stages;
\* the jail is down when they begin.
InitRace ==
    /\ InitCommon
    /\ DefaultNet(conf) /\ ~conf.jail_zfs /\ conf.ip6_addr = NoneAddr /\ ~conf.dhcp
    /\ jail = [running |-> FALSE, owner |-> "none"]
    /\ pc = Start
    /\ mac_call = NoMacCall

SpecRace == InitRace /\ [][Next]_vars

\* Network provisioning in detail: one start of a jail with virtual networking
\* on, over the shapes of `interfaces` (a NIC other than vnet0 first, a NIC
\* named twice) and of the address properties (entries without "iface|",
\* several entries on one NIC, both families, a NIC that is not declared).
NetInterfaceLists ==
    InterfaceLists \cup { << "vnet1" >> } \cup { Repeat("vnet0", n) : n \in 2..MaxNics }

NetIp4Choices ==
    Ip4Choices \cup
    { << [iface |-> "", ip |-> "10.0.0.5/24"] >>,
      << [iface |-> "vnet0", ip |-> "10.0.0.5/24"], [iface |-> "vnet0", ip |-> "10.0.0.6/24"] >>,
      << [iface |-> "vnet1", ip |-> "10.0.1.5/24"] >>,
      << [iface |-> "vnet9", ip |-> "10.0.9.5/24"] >> }

NetIp6Choices ==
    Ip6Choices \cup
    { << [iface |-> "vnet0", ip |-> "fd00::5/64"] >>,
      << [iface |-> "vnet0", ip |-> "accept_rtadv"], [iface |-> "vnet0", ip |-> "fd00::5/64"] >> }

NetConfigs ==
    { c \in [ vnet : {TRUE}, dhcp : BOOLEAN, bpf : {TRUE},
              ip4_addr : NetIp4Choices, ip6_addr : NetIp6Choices,
              jail_zfs : {FALSE}, interfaces : NetInterfaceLists,
              vnet_default_interface : {"none"}, netgraph : BOOLEAN,
              defaultrouter : Gateways4, defaultrouter6 : Gateways6,
              on : {DefaultOn}, vnet_interfaces : {<< >>} ] :
        /\ (c.defaultrouter = "none") = (c.defaultrouter6 = "none")
        /\ c.dhcp => c.ip4_addr \in { NoneAddr, << [iface |-> "vnet0", ip |-> "10.0.0.5/24"] >> } }

InitNet ==
    /\ conf \in NetConfigs
    /\ store = [mac |-> [n \in NicSet |-> MacNone], last_started |-> 0]
    /\ jail = [running |-> FALSE, owner |-> "none"]
    /\ pc = [Start EXCEPT !["B"] = "idle"]
    /\ trace = [p \in Procs |-> << >>]
    /\ vnet_err = [p \in Procs |-> << >>]
    /\ errors = [p \in Procs |-> << >>]
    /\ nic_i = [p \in Procs |-> 1]
    /\ fatal_msg = [p \in Procs |-> << >>]
    /\ cmds = [p \in Procs |-> << >>]
    /\ readback = [p \in Procs |-> NotRead]
    /\ host = DefaultHost
    /\ artifact = << >>
    /\ rules = {}
    /\ nic_log = NoNicLog
    /\ alias_call = NoAliasCall
    /\ ng = NgIdle
    /\ mac_call = NoMacCall

SpecNet == InitNet /\ [][Next]_vars

\* Parameter assembly in detail: one start on hosts of the releases around
\* the three gates, over the 0/1 properties, static addresses with and
\* without "iface|", `vnet_interfaces`, and rules left by an earlier start.
HostVersions == {93, 100, 103, 110, 120}
Hosts ==
    [ version : HostVersions, def_iface4 : {"none", "igb0"}, def_iface6 : {"none"},
      ifaddresses4 : { [igb0 |-> {}, bridge0 |-> {}],
                       [igb0 |-> {"192.168.1.50"}, bridge0 |-> {}] },
      ifaddresses6 : { [igb0 |-> {}, bridge0 |-> {}] },
      mount_fails : {FALSE}, bridge_members : {<< >>}, mtu : {HostMtu} ]

GatedProps == {"mount_fdescfs", "allow_mount_tmpfs", "allow_mlock"}
BuildOnSets == { DefaultOn \cup g : g \in SUBSET GatedProps } \cup { {} }

VnetIp4 == << [iface |-> "vnet0", ip |-> "10.0.0.5/24"] >>
BuildIp4Choices ==
    { NoneAddr, VnetIp4,
      << [iface |-> "em0", ip |-> "192.168.1.50/24"] >>,
      << [iface |-> "", ip |-> "192.168.1.50"] >>,
      << [iface |-> "em0", ip |-> "192.168.1.50/24"], [iface |-> "", ip |-> "192.168.1.51/24"] >> }

VnetInterfaceLists == { << >>, << "em1" >>, << "em1", "em2" >> }

BuildConfigs ==
    { c \in [ vnet : BOOLEAN, dhcp : {FALSE}, bpf : {FALSE},
              ip4_addr : BuildIp4Choices, ip6_addr : {NoneAddr},
              jail_zfs : {FALSE}, interfaces : {<< "vnet0" >>},
              vnet_default_interface : {"auto"}, netgraph : {FALSE},
              defaultrouter : {"none"}, defaultrouter6 : {"none"},
              on : BuildOnSets, vnet_interfaces : VnetInterfaceLists ] :
        /\ c.vnet => c.ip4_addr \in { NoneAddr, VnetIp4 }
        /\ ~c.vnet => c.ip4_addr # VnetIp4
        /\ ~c.vnet => c.vnet_interfaces = << >> }

InitBuild ==
    /\ conf \in BuildConfigs
    /\ host \in Hosts
    /\ rules \in { {}, {"old"} }
    /\ store = [mac |-> [n \in NicSet |-> MacNone], last_started |-> 0]
    /\ jail = [running |-> FALSE, owner |-> "none"]
    /\ pc = [Start EXCEPT !["B"] = "idle"]
    /\ trace = [p \in Procs |-> << >>]
    /\ vnet_err = [p \in Procs |-> << >>]
    /\ errors = [p \in Procs |-> << >>]
    /\ nic_i = [p \in Procs |-> 1]
    /\ fatal_msg = [p \in Procs |-> << >>]
    /\ cmds = [p \in Procs |-> << >>]
    /\ readback = [p \in Procs |-> NotRead]
    /\ artifact = << >>
    /\ nic_log = NoNicLog
    /\ alias_call = NoAliasCall
    /\ ng = NgIdle
    /\ mac_call = NoMacCall

SpecBuild == InitBuild /\ [][Next]_vars

\* Calls of __generate_mac_address_pair alone: no start is under way.
IdleConf ==
    CHOOSE c \in Configs :
        /\ DefaultNet(c) /\ ~c.vnet /\ ~c.dhcp /\ ~c.bpf /\ ~c.jail_zfs
        /\ c.ip4_addr = NoneAddr /\ c.ip6_addr = NoneAddr

InitMac ==
    /\ mac_call \in MacCalls
    /\ conf = IdleConf
    /\ store = [mac |-> [n \in NicSet |-> MacNone], last_started |-> 0]
    /\ jail = [running |-> FALSE, owner |-> "none"]
    /\ pc = [p \in Procs |-> "idle"]
    /\ trace = [p \in Procs |-> << >>]
    /\ vnet_err = [p \in Procs |-> << >>]
    /\ errors = [p \in Procs |-> << >>]
    /\ nic_i = [p \in Procs |-> 1]
    /\ fatal_msg = [p \in Procs |-> << >>]
    /\ cmds = [p \in Procs |-> << >>]
    /\ readback = [p \in Procs |-> NotRead]
    /\ host = DefaultHost
    /\ artifact = << >>
    /\ rules = {}
    /\ nic_log = NoNicLog
    /\ alias_call = NoAliasCall
    /\ ng = NgIdle

NextMac == GenerateMacPair

SpecMac == InitMac /\ [][NextMac]_vars

\* check_aliases on its own: one call on a list of one or two entries (with
\* "iface|", without it and on the host already, without it and new, without
\* it and on a bridge only) of either family, on hosts with and without a
\* default gateway of the family.
AliasEntries ==
    [ m \in {"4", "6"} |->
        IF m = "4"
        THEN { [iface |-> "em0", ip |-> "192.168.1.50/24"], [iface |-> "", ip |-> "192.168.1.50"],
               [iface |-> "", ip |-> "192.168.1.51/24"], [iface |-> "", ip |-> "10.9.9.9"] }
        ELSE { [iface |-> "em0", ip |-> "fd00::50/64"], [iface |-> "", ip |-> "fd00::50"],
               [iface |-> "", ip |-> "fd00::51/64"] } ]

AliasCalls ==
    { c \in [ ip_addrs : UNION { [1..n -> AliasEntries["4"] \cup AliasEntries["6"]] : n \in 1..2 },
              mode : {"4", "6"}, called : {FALSE}, out : {<< >>} ] :
        \A k \in DOMAIN c.ip_addrs : c.ip_addrs[k] \in AliasEntries[c.mode] }

AliasHosts ==
    [ version : {120}, def_iface4 : {"none", "igb0"}, def_iface6 : {"none", "igb0"},
      ifaddresses4 : { [igb0 |-> {}, bridge0 |-> {}],
                       [igb0 |-> {"192.168.1.50"}, bridge0 |-> {"10.9.9.9"}] },
      ifaddresses6 : { [igb0 |-> {}, bridge0 |-> {}],
                       [igb0 |-> {"fd00::50"}, bridge0 |-> {}] },
      mount_fails : {FALSE}, bridge_members : {<< >>}, mtu : {HostMtu} ]

DefIface(h, mode) == IF mode = "4" THEN h.def_iface4 ELSE h.def_iface6
IfAddresses(h, mode) == IF mode = "4" THEN h.ifaddresses4 ELSE h.ifaddresses6

CheckAliases ==
    /\ ~alias_call.called
    /\ alias_call' = [alias_call EXCEPT
                        !.called = TRUE,
                        !.out = check_aliases(alias_call.ip_addrs, DefIface(host, alias_call.mode),
                                              collect_current_ips(IfAddresses(host, alias_call.mode)))]
    /\ UNCHANGED <<conf, store, jail, pc, trace, vnet_err, errors, nic_i, fatal_msg, cmds, mac_call, readback, host, artifact, rules, nic_log, ng>>

InitAlias ==
    /\ alias_call \in AliasCalls
    /\ host \in AliasHosts
    /\ conf = IdleConf
    /\ store = [mac |-> [n \in NicSet |-> MacNone], last_started |-> 0]
    /\ jail = [running |-> FALSE, owner |-> "none"]
    /\ pc = [p \in Procs |-> "idle"]
    /\ trace = [p \in Procs |-> << >>]
    /\ vnet_err = [p \in Procs |-> << >>]
    /\ errors = [p \in Procs |-> << >>]
    /\ nic_i = [p \in Procs |-> 1]
    /\ fatal_msg = [p \in Procs |-> << >>]
    /\ cmds = [p \in Procs |-> << >>]
    /\ readback = [p \in Procs |-> NotRead]
    /\ artifact = << >>
    /\ rules = {}
    /\ nic_log = NoNicLog
    /\ mac_call = NoMacCall
    /\ ng = NgIdle

NextAlias == CheckAliases
SpecAlias == InitAlias /\ [][NextAlias]_vars

\* The add_ng_bridge_member calls of one start of a netgraph jail, probe by
\* probe, over the bridges the start can find: none, or one whose links hold
\* the default host interface and other jails' interfaces.
NgIp4Choices ==
    { << [iface |-> "vnet0", ip |-> "10.0.0.5/24"] >>,
      << [iface |-> "vnet0", ip |-> "10.0.0.5/24"], [iface |-> "vnet1", ip |-> "10.0.1.5/24"] >> }

NgConfigs ==
    { [IdleConf EXCEPT !.vnet = TRUE, !.netgraph = TRUE, !.interfaces = il,
                       !.ip4_addr = ip4, !.vnet_default_interface = d] :
        il \in InterfaceLists, ip4 \in NgIp4Choices, d \in {"none", "em0"} }

NgBridges ==
    { [NgIdle EXCEPT !.exists = e, !.links = l, !.every_busy = b] :
        e \in BOOLEAN, b \in BOOLEAN, l \in [LinkIdx -> {"free", "em0", "em1"}] }

InitNg ==
    /\ conf \in NgConfigs
    /\ \E g \in NgBridges :
         /\ ~g.exists => (~g.every_busy /\ \A k \in LinkIdx : g.links[k] = "free")
         /\ ng = [g EXCEPT !.todo = start_calls(conf, 1)]
    /\ store = [mac |-> [n \in NicSet |-> MacNone], last_started |-> 0]
    /\ jail = [running |-> FALSE, owner |-> "none"]
    /\ pc = [p \in Procs |-> "idle"]
    /\ trace = [p \in Procs |-> << >>]
    /\ vnet_err = [p \in Procs |-> << >>]
    /\ errors = [p \in Procs |-> << >>]
    /\ nic_i = [p \in Procs |-> 1]
    /\ fatal_msg = [p \in Procs |-> << >>]
    /\ cmds = [p \in Procs |-> << >>]
    /\ mac_call = NoMacCall
    /\ readback = [p \in Procs |-> NotRead]
    /\ host = DefaultHost
    /\ artifact = << >>
    /\ rules = {}
    /\ nic_log = NoNicLog
    /\ alias_call = NoAliasCall

SpecNg == InitNg /\ [][NextNg]_vars

\* One start of a jail with virtual networking, with the calls of
\* add_ng_bridge_member taken probe by probe, over hosts whose optional mounts
\* fail or not and whose bridge has no member, one, or two.
FabricConfigs ==
    { [IdleConf EXCEPT !.vnet = TRUE, !.netgraph = n, !.interfaces = il,
                       !.ip4_addr = ip4, !.vnet_default_interface = d] :
        n \in BOOLEAN, il \in InterfaceLists, ip4 \in NgIp4Choices, d \in {"none", "em0"} }

FabricMembers == { << >>, << "em1" >>, << "em1", "em0" >> }

FabricHosts ==
    { [DefaultHost EXCEPT !.mount_fails = mf, !.bridge_members = ms] :
        mf \in BOOLEAN, ms \in FabricMembers }

\* An ether member holds two links of the bridge node, lower and upper.
links_of(members) ==
    [k \in LinkIdx |-> IF (k \div 2) + 1 <= Len(members) THEN members[(k \div 2) + 1]
                       ELSE "free"]

\* The calls of a NIC turn are handed to the bridge when the turn begins.
NgTurn(p) ==
    /\ pc[p] = "net_nic" /\ conf.netgraph /\ ng.turn # nic_i[p]
    /\ ng' = [ng EXCEPT !.turn = nic_i[p],
                        !.todo = turn_calls(conf, conf.interfaces[nic_i[p]],
                                            conf.vnet_default_interface),
                        !.results = << >>, !.log = << >>]
    /\ NgFrame

\* The calls of the NIC turn at hand have returned.
TurnReady(p) ==
    (pc[p] = "net_nic" /\ conf.netgraph) =>
        (ng.turn = nic_i[p] /\ ng.todo = << >> /\ ng.call.pc = "idle")

NgFailed(ether) ==
    \E k \in DOMAIN ng.results :
        /\ ng.results[k].outcome = "error"
        /\ (ng.results[k].nodetype = "ether") = ether

\* The account of a netgraph NIC turn agrees with how its calls ended: the
\* call of start_network_ng_bridge failed or not (lines 956-959), and a failed
\* attachment of the jail's interface is an error of the turn (lines 1020,
\* 1049-1050).  NetNic draws one failing command for a turn; when both calls
\* failed its account is the one of the first.
TurnOutcome(p) ==
    (pc[p] = "net_nic" /\ conf.netgraph) =>
        LET e == nic_log'[p][Len(nic_log'[p])] IN
          /\ e.fabric_failed = NgFailed(TRUE)
          /\ (NgFailed(FALSE) /\ ~NgFailed(TRUE)) => (~e.raised /\ e.failed >= 1)

FabricStep(p) == NgTurn(p) \/ (TurnReady(p) /\ Step(p) /\ TurnOutcome(p))

NextFabric == (\E p \in Procs : FabricStep(p)) \/ NextNg

InitFabric ==
    /\ conf \in FabricConfigs
    /\ host \in FabricHosts
    /\ \E b \in BOOLEAN :
         /\ b => (conf.netgraph /\ host.bridge_members # << >>)
         /\ ng = IF conf.netgraph
                 THEN [NgIdle EXCEPT !.exists = host.bridge_members # << >>,
                                     !.links = links_of(host.bridge_members),
                                     !.every_busy = b]
                 ELSE NgIdle
    /\ store = [mac |-> [n \in NicSet |-> MacNone], last_started |-> 0]
    /\ jail = [running |-> FALSE, owner |-> "none"]
    /\ pc = [Start EXCEPT !["B"] = "idle"]
    /\ trace = [p \in Procs |-> << >>]
    /\ vnet_err = [p \in Procs |-> << >>]
    /\ errors = [p \in Procs |-> << >>]
    /\ nic_i = [p \in Procs |-> 1]
    /\ fatal_msg = [p \in Procs |-> << >>]
    /\ cmds = [p \in Procs |-> << >>]
    /\ mac_call = NoMacCall
    /\ readback = [p \in Procs |-> NotRead]
    /\ artifact = << >>
    /\ rules = {}
    /\ nic_log = NoNicLog
    /\ alias_call = NoAliasCall

SpecFabric == InitFabric /\ [][NextFabric]_vars

\* Every command returns, so a start that can take a step takes one.
SpecFabricLive == SpecFabric /\ WF_vars(NextFabric)

----------------------------------------------------------------------------
\* Vocabulary of the properties.

Events(p) == {trace[p][i] : i \in DOMAIN trace[p]}
Launched(p) == Has(trace[p], "jail_created")
Stops(p) == Count(trace[p], "IOCStop")
EndsWith(p, e) == trace[p] # << >> /\ Last(trace[p]) = e

\* External effects a start can have.
NetworkEvents == { "ngctl", "ifconfig_bridge", "ifconfig_create", "ifconfig_link",
                   "ifconfig_vnet", "ifconfig_addr", "route_add", "set_mac" }
PreLaunchEffects == { "sysrc", "mount", "zfs_create", "zfs_set", "sync_changes", "jail_c" }
PostLaunchEffects == NetworkEvents \cup
    { "jail_created", "symlink", "zfs_jail", "resolv", "exec_start", "exec_poststart",
      "dhcp_check", "rctl_remove", "rctl_set", "set_last_started" }
SideEffects == PreLaunchEffects \cup PostLaunchEffects \cup { "IOCStop" }

\* The four combination rules of the validation, as the specification lists them.
RuleViolations(c) ==
    (IF wants_dhcp(c) /\ ~c.bpf THEN { "dhcp requires bpf!" } ELSE {})
    \cup (IF wants_dhcp(c) /\ ~c.vnet THEN { "dhcp requires vnet!" } ELSE {})
    \cup (IF HasIp(c.ip6_addr, "accept_rtadv") /\ ~c.vnet
          THEN { "accept_rtadv requires vnet!" } ELSE {})
    \cup (IF c.bpf /\ ~c.vnet THEN { "bpf requires vnet!" } ELSE {})

----------------------------------------------------------------------------
\* C1: whenever a start whose launch succeeded ends in a fatal failure, it has
\* invoked the forced stop before the failure propagated, and the jail it
\* brought up is not left running.
C1_FailedStartIsRolledBack ==
    \A p \in Procs :
        (pc[p] = "failed" /\ Launched(p)) =>
            /\ Stops(p) >= 1
            /\ ~(jail.running /\ jail.owner = p)

\* C2: each of the four post-launch failures (provisioning returned errors,
\* start command failed, post-start hook failed, DHCP verification failed) is
\* followed by exactly one forced stop and then the fatal error, and by no
\* later stage.
VnetFailed(p) == vnet_err[p] # << >> /\ pc[p] # "net_result"
ExecStartFailed(p) == Has(trace[p], "exec_start") /\ ~Has(trace[p], "INFO:services_ok")
PoststartFailed(p) == Has(trace[p], "exec_poststart") /\ ~Has(trace[p], "INFO:poststart_ok")
DhcpFailed(p) == Has(trace[p], "dhcp_check") /\ ~Has(trace[p], "INFO:dhcp_address")

StoppedOnceThenRaised(p, fatal, later) ==
    /\ pc[p] = "failed"
    /\ Stops(p) = 1
    /\ Len(trace[p]) >= 2
    /\ trace[p][Len(trace[p]) - 1] = "IOCStop"
    /\ Last(trace[p]) = fatal
    /\ Events(p) \cap later = {}

C2_PostLaunchFailureStopsOnce ==
    \A p \in Procs :
        /\ VnetFailed(p) =>
             StoppedOnceThenRaised(p, "EXCEPTION:vnet",
                 { "zfs_jail", "resolv", "exec_start", "exec_poststart", "dhcp_check",
                   "rctl_remove", "rctl_set", "set_last_started" })
        /\ ExecStartFailed(p) =>
             StoppedOnceThenRaised(p, "EXCEPTION:exec_start",
                 { "exec_poststart", "dhcp_check", "rctl_remove", "rctl_set",
                   "set_last_started" })
        /\ PoststartFailed(p) =>
             StoppedOnceThenRaised(p, "EXCEPTION:exec_poststart",
                 { "dhcp_check", "rctl_remove", "rctl_set", "set_last_started" })
        /\ DhcpFailed(p) =>
             StoppedOnceThenRaised(p, "EXCEPTION:dhcp",
                 { "rctl_remove", "rctl_set", "set_last_started" })

C2_Witness ==
    /\ DhcpFailed("A") /\ pc["A"] = "failed"
    /\ Has(trace["A"], "INFO:poststart_ok")

\* C3: a launch that exits non-zero ends the start with a fatal error, with no
\* forced stop and no post-launch stage; and no start invokes the forced stop
\* before its own launch has succeeded.
LaunchFailed(p) == Has(trace[p], "jail_c") /\ ~Has(trace[p], "jail_created")

C3_LaunchFailureNoRollback ==
    \A p \in Procs :
        /\ LaunchFailed(p) =>
             /\ pc[p] = "failed"
             /\ Last(trace[p]) = "EXCEPTION:launch"
             /\ Stops(p) = 0
             /\ Events(p) \cap PostLaunchEffects = {}
        /\ Stops(p) > 0 => Launched(p)

C3_Witness == LaunchFailed("A") /\ pc["A"] = "failed" /\ conf.vnet

\* C4: when the batch application of the resource rules reports rejected
\* rules, the start invokes no forced stop, logs the rejected rules at level
\* WARNING and completes (last_started is written).
C4_RctlRejectionWarns ==
    \A p \in Procs :
        (Has(trace[p], "rctl_rejected") /\ pc[p] = "done") =>
            /\ Stops(p) = 0
            /\ Has(trace[p], "WARNING:rctl_failed")
            /\ Has(trace[p], "set_last_started")

\* C5: the validation error carries one message for every violated rule.
C5_AllViolationsReported ==
    \A p \in Procs :
        Has(trace[p], "EXCEPTION:config") =>
            {fatal_msg[p][i] : i \in DOMAIN fatal_msg[p]} = RuleViolations(conf)

\* C6: on a configuration that breaks one of the four combination rules, a
\* start never gets past the validation: it ends with the configuration error
\* (or earlier, at the running check or the hostid check) and has had no side
\* effect; with vnet on, dhcp wanted and bpf off the error names
\* "dhcp requires bpf!".
C6_InvalidConfigAbortsBeforeEffects ==
    RuleViolations(conf) # {} =>
        \A p \in Procs :
            /\ pc[p] \in {"idle", "check_running", "hostid", "validate", "failed", "returned"}
            /\ pc[p] = "failed" =>
                 trace[p] \in { << "EXCEPTION:config" >>, << "EXCEPTION:already_running" >> }
            /\ Events(p) \cap SideEffects = {}
            /\ (EndsWith(p, "EXCEPTION:config") /\ wants_dhcp(conf) /\ ~conf.bpf) =>
                 Has(fatal_msg[p], "dhcp requires bpf!")

C6_Witness ==
    /\ conf.vnet /\ conf.dhcp /\ ~conf.bpf
    /\ pc["A"] = "failed"
    /\ trace["A"] = << "EXCEPTION:config" >>
    /\ Has(fatal_msg["A"], "dhcp requires bpf!")

\* C7: the stages of one start happen in the order validate/build, write of
\* the runtime artifact, launch, network provisioning, start command,
\* post-start hook, DHCP verification, resource rules, last_started; a stage
\* runs only when the stages before it went through, and nothing runs after a
\* fatal failure.
StageRank(e) ==
    CASE e \in {"sysrc", "mount", "zfs_create", "zfs_set"} -> 0
      [] e = "sync_changes" -> 1
      [] e \in {"jail_c", "jail_created"} -> 2
      [] e \in NetworkEvents -> 3
      [] e = "exec_start" -> 4
      [] e = "exec_poststart" -> 5
      [] e = "dhcp_check" -> 6
      [] e \in {"rctl_remove", "rctl_set"} -> 7
      [] e = "set_last_started" -> 8
      [] OTHER -> -1

C7_StagesInOrder ==
    \A p \in Procs :
        LET t == trace[p] IN
        /\ \A i, j \in DOMAIN t :
             (i < j /\ StageRank(t[i]) >= 0 /\ StageRank(t[j]) >= 0) =>
                 StageRank(t[i]) <= StageRank(t[j])
        /\ \A e \in {"sync_changes", "jail_c", "exec_start", "exec_poststart",
                     "dhcp_check", "rctl_set", "set_last_started"} : Count(t, e) <= 1
        /\ \A i \in DOMAIN t : t[i] \in Fatal => (i = Len(t) /\ pc[p] = "failed")
        /\ pc[p] = "failed" => (t # << >> /\ Last(t) \in Fatal)
        /\ Has(t, "sync_changes") => RuleViolations(conf) = {}
        /\ Has(t, "jail_c") => Has(t, "sync_changes")
        /\ Events(p) \cap NetworkEvents # {} => Launched(p)
        /\ Has(t, "exec_start") => (Launched(p) /\ (conf.vnet => Has(t, "INFO:vnet_ok")))
        /\ Has(t, "exec_poststart") => Has(t, "INFO:services_ok")
        /\ Has(t, "dhcp_check") => Has(t, "INFO:poststart_ok")
        /\ Has(t, "rctl_set") => Has(t, "INFO:poststart_ok") /\ ~DhcpFailed(p)
        /\ Has(t, "set_last_started") =>
             /\ Has(t, "INFO:poststart_ok") /\ ~DhcpFailed(p)
             /\ pc[p] = "done"

C7_Witness ==
    /\ pc["A"] = "done"
    /\ \A e \in {"sync_changes", "jail_created", "ifconfig_vnet", "exec_start",
                 "exec_poststart", "dhcp_check", "rctl_set", "set_last_started"} :
         Has(trace["A"], e)

\* C8: a start that finds the jail already running at entry ends with the
\* already-running error and has no effect at all: no side effect, no store
\* write, and the running jail is left up.
C8_AlreadyRunningNoEffect ==
    jail.owner = "earlier" =>
        /\ jail.running
        /\ pc["A"] \in {"check_running", "failed"}
        /\ pc["A"] = "failed" => trace["A"] = << "EXCEPTION:already_running" >>
        /\ Events("A") \cap SideEffects = {}
        /\ store.last_started = 0

C8_Witness ==
    /\ jail.owner = "earlier"
    /\ pc["A"] = "failed"
    /\ trace["A"] = << "EXCEPTION:already_running" >>

\* C9 as stated: of two racing starts at most one launch succeeds, and a start
\* whose launch is rejected fails at launch without a forced stop.
C9_AtMostOneLaunchSucceeds ==
    /\ Cardinality({p \in Procs : Launched(p)}) <= 1
    /\ \A p \in Procs :
         LaunchFailed(p) => (pc[p] = "failed" /\ Stops(p) = 0)

\* C9 as amended: a launch succeeds only while no jail is up, so two launches
\* succeed only when the first start has failed and force-stopped its own jail
\* in between; a start whose launch is rejected fails at launch without a
\* forced stop; and a jail is only ever torn down by the start that launched
\* it (a launched start that has not stopped still owns the running jail).
C9_RejectedLaunchNeverStops ==
    /\ \A p \in Procs :
         /\ LaunchFailed(p) =>
              (pc[p] = "failed" /\ Last(trace[p]) = "EXCEPTION:launch" /\ Stops(p) = 0)
         /\ (Launched(p) /\ Stops(p) = 0) => (jail.running /\ jail.owner = p)
         /\ Stops(p) <= 1
    /\ \A p, q \in Procs :
         (p # q /\ Launched(p) /\ Launched(q)) =>
             \/ Stops(p) = 1 /\ pc[p] = "failed"
             \/ Stops(q) = 1 /\ pc[q] = "failed"

C9_Witness ==
    /\ jail.running /\ jail.owner = "A" /\ pc["A"] = "done"
    /\ Has(trace["B"], "sync_changes")
    /\ LaunchFailed("B") /\ pc["B"] = "failed"

\* C10 as stated: a start writes to the store only at the very end of a
\* successful path; a start that ends in a fatal failure has written nothing,
\* and a successful start writes last_started exactly once, last.
StoreWrites(p) == Count(trace[p], "set_mac") + Count(trace[p], "set_last_started")

C10_StoreWrittenOnlyOnSuccess ==
    \A p \in Procs :
        /\ pc[p] = "failed" => StoreWrites(p) = 0
        /\ pc[p] = "done" =>
             (Count(trace[p], "set_last_started") = 1 /\ Last(trace[p]) = "set_last_started")

\* C10 as amended: a generated MAC pair is persisted when it is generated,
\* during network provisioning, also by a start that fails later; last_started
\* is written only by a successful start, exactly once and as its final
\* action, and a start that fails has not written it.
C10_LastStartedOnlyOnSuccess ==
    \A p \in Procs :
        LET t == trace[p] IN
        /\ pc[p] # "done" => (Count(t, "set_last_started") = 0)
        /\ pc[p] = "done" =>
             (Count(t, "set_last_started") = 1 /\ Last(t) = "set_last_started")
        /\ store.last_started = Cardinality({q \in Procs : pc[q] = "done"})
        /\ \A i \in DOMAIN t :
             t[i] = "set_mac" =>
                 /\ \E j \in 1..(i - 1) : t[j] = "jail_created"
                 /\ \A j \in 1..(i - 1) : StageRank(t[j]) <= 3

C10_Witness ==
    /\ pc["A"] = "failed"
    /\ Has(trace["A"], "set_mac")
    /\ store.mac["vnet0"] = MacGenerated
    /\ store.last_started = 0

----------------------------------------------------------------------------
\* C11: for every NIC vnetK, the first hexadecimal digit (the high nibble of
\* byte 0) of both generated addresses is K mod 16.
C11_HighNibbleIsNicIndex ==
    mac_call.mac_a # << >> =>
        /\ mac_call.mac_a[1] = mac_call.nic_offset % 16
        /\ mac_call.mac_b[1] = mac_call.nic_offset % 16

\* C12: with p the parent's administered nibble (0 for parent "none"), the
\* low nibble of byte 0 is (p XOR 4) OR 2 on the host side and (p XOR 8) OR 2
\* on the jail side, both within four bits; the two differ from each other
\* and from p, both have the locally-administered bit (2) set, and the two
\* addresses agree in every other digit.
ParentNibble == IF mac_call.nic_parent = "none" THEN 0 ELSE mac_call.parent_nibble

C12_AdminNibbles ==
    mac_call.mac_a # << >> =>
        LET a == mac_call.mac_a[2]
            b == mac_call.mac_b[2]
            p == ParentNibble
        IN /\ a = BitOr(BitXor(p, 4), 2) /\ b = BitOr(BitXor(p, 8), 2)
           /\ a \in 0..15 /\ b \in 0..15
           /\ a # b /\ a # p /\ b # p
           /\ (a \div 2) % 2 = 1 /\ (b \div 2) % 2 = 1
           /\ Len(mac_call.mac_a) = 12 /\ Len(mac_call.mac_b) = 12
           /\ \A i \in (1..12) \ {2} : mac_call.mac_a[i] = mac_call.mac_b[i]

C12_Witness ==
    /\ mac_call.mac_a # << >>
    /\ mac_call.nic_parent = "em0"
    /\ mac_call.parent_nibble = 6
    /\ mac_call.mac_a[2] = 2
    /\ mac_call.mac_b[2] = 14

----------------------------------------------------------------------------
\* C13: over the starts of one jail, a NIC's MAC field is written only while
\* it holds "none", and then with the generated pair; once it holds a pair no
\* start regenerates or rewrites it, and every interface a start creates gets
\* exactly the persisted pair.
MacWrites(p) == Count(trace[p], "set_mac")

C13_MacStep ==
    /\ \A n \in NicSet :
         /\ store.mac[n] # MacNone => store'.mac[n] = store.mac[n]
         /\ store'.mac[n] # store.mac[n] =>
              /\ store'.mac[n] = MacGenerated
              /\ \E p \in Procs : MacWrites(p)' = MacWrites(p) + 1
    /\ \A p \in Procs :
         MacWrites(p)' # MacWrites(p) =>
             \E n \in NicSet : store.mac[n] = MacNone /\ store'.mac[n] = MacGenerated

C13_PersistedMacIsReused ==
    /\ [][C13_MacStep]_vars
    /\ [](\A p \in Procs : \A i \in DOMAIN cmds[p] :
            (cmds[p][i].op = "create" /\ cmds[p][i].arg # << >>) =>
                /\ cmds[p][i].arg # MacNone
                /\ cmds[p][i].arg = store.mac[cmds[p][i].iface])

\* The first start generated the pair and was rolled back; the second start
\* created its interface with that pair and wrote nothing.
C13_Witness ==
    /\ MacWrites("A") = 1
    /\ MacWrites("B") = 0
    /\ store.mac["vnet0"] = MacGenerated
    /\ \E i \in DOMAIN cmds["B"] :
         cmds["B"][i].op = "create" /\ cmds["B"][i].arg = MacGenerated

----------------------------------------------------------------------------
\* Vocabulary of the provisioning properties.
CmdCount(p, op, nic, ipv6) ==
    Cardinality({ i \in DOMAIN cmds[p] :
                    cmds[p][i].op = op /\ cmds[p][i].iface = nic /\ cmds[p][i].ipv6 = ipv6 })

AllNicNames == DOMAIN NicDigits
Declared(nic) == Has(conf.interfaces, nic)

\* start_network went through the whole NIC loop and returned.
Provisioned(p) ==
    /\ Has(trace[p], "INFO:vnet_ok") \/ Has(trace[p], "ERROR:vnet_failed")
    /\ vnet_err[p] # << "vnet_default_interface" >>

\* The entries of a property the specification binds to nic: those that name
\* it, and under DHCP the placeholder every declared NIC gets.
NamedFor(addrs, nic) ==
    addrs # NoneAddr /\ \E i \in DOMAIN addrs : addrs[i].iface = nic

HasBoundEntry(nic) ==
    /\ Declared(nic)
    /\ \/ wants_dhcp(conf)
       \/ NamedFor(conf.ip4_addr, nic)
       \/ NamedFor(conf.ip6_addr, nic)

\* C14: in one provisioning run the interface pair of a NIC is created at
\* most once, and exactly once when an entry (or the DHCP placeholder) is
\* bound to the NIC, also with several entries, both families, or a NIC named
\* twice in `interfaces`.
C14_PairCreatedOncePerNic ==
    \A p \in Procs : \A nic \in AllNicNames :
        /\ CmdCount(p, "create", nic, FALSE) <= 1
        /\ (Provisioned(p) /\ HasBoundEntry(nic)) => CmdCount(p, "create", nic, FALSE) = 1

NetCmds(p, op) == { cmds[p][i] : i \in { j \in DOMAIN cmds[p] : cmds[p][j].op = op } }
FamilyGateway(ipv6) == IF ipv6 THEN conf.defaultrouter6 ELSE conf.defaultrouter

\* C15: a default-route command is issued only for an interface whose numeric
\* suffix is 0 and with the family's gateway, which is not "none"; no other
\* interface gets one, under the bridge backend and under netgraph.
C15_RouteOnlyOnIndexZero ==
    \A p \in Procs : \A r \in NetCmds(p, "route") :
        /\ r.iface = "vnet0"
        /\ FamilyGateway(r.ipv6) # "none"
        /\ r.arg = << FamilyGateway(r.ipv6) >>

\* vnet1 got its address and, with a gateway configured, no route; vnet0 got
\* the route of the other family; the backend is netgraph.
C15_Witness ==
    /\ conf.netgraph
    /\ conf.defaultrouter # "none"
    /\ Has(trace["A"], "INFO:vnet_ok")
    /\ CmdCount("A", "addr", "vnet1", FALSE) = 1
    /\ CmdCount("A", "route", "vnet1", FALSE) = 0
    /\ CmdCount("A", "route", "vnet0", TRUE) = 1

\* The static entries of a family that name nic.
StaticFor(addrs, nic) ==
    { i \in DOMAIN addrs :
        addrs[i].iface = nic /\ addrs[i].ip \notin {"none", "DHCP", "accept_rtadv"} }

FamilyAddrs(ipv6) == IF ipv6 THEN conf.ip6_addr ELSE conf.ip4_addr

RouteCount(p, ipv6) ==
    Cardinality({ i \in DOMAIN cmds[p] : cmds[p][i].op = "route" /\ cmds[p][i].ipv6 = ipv6 })

\* C16: in one provisioning run each family gets at most one default-route
\* command, and exactly one when DHCP is not requested, the family's gateway
\* is set and the NIC of index 0 carries a static address of the family,
\* however many such addresses it carries.
C16_OneRoutePerFamily ==
    \A p \in Procs : \A ipv6 \in BOOLEAN :
        /\ RouteCount(p, ipv6) <= 1
        /\ ( /\ Has(trace[p], "INFO:vnet_ok")
             /\ ~wants_dhcp(conf)
             /\ FamilyGateway(ipv6) # "none"
             /\ Declared("vnet0")
             /\ StaticFor(FamilyAddrs(ipv6), "vnet0") # {} ) => RouteCount(p, ipv6) = 1

\* C17: an entry without "iface|" is bound to the first NIC of `interfaces`,
\* whatever its name: its address is configured on that NIC.
Unprefixed(addrs) ==
    { i \in DOMAIN addrs : addrs[i].iface = "" /\ addrs[i].ip # "none" }

C17_UnprefixedGoesToFirstNic ==
    \A p \in Procs : \A ipv6 \in BOOLEAN :
        (Provisioned(p) /\ ~wants_dhcp(conf)) =>
            \A i \in Unprefixed(FamilyAddrs(ipv6)) :
                [op |-> "addr", iface |-> conf.interfaces[1], ipv6 |-> ipv6,
                 arg |-> << FamilyAddrs(ipv6)[i].ip >>] \in NetCmds(p, "addr")

\* C18: an entry whose interface is not declared in `interfaces` is skipped
\* silently: no command is ever issued for an undeclared interface, and when
\* every entry names an undeclared interface provisioning issues no command,
\* collects no error and succeeds.
EntryErrors == { "create failed", "link failed", "addr failed", "route failed" }

OnlyUndeclaredEntries ==
    /\ ~wants_dhcp(conf)
    /\ conf.ip4_addr # NoneAddr \/ conf.ip6_addr # NoneAddr
    /\ \A ipv6 \in BOOLEAN : \A i \in DOMAIN FamilyAddrs(ipv6) :
         LET e == FamilyAddrs(ipv6)[i] IN
         e.ip # "none" => (e.iface # "" /\ ~Declared(e.iface))

C18_UndeclaredEntrySkipped ==
    \A p \in Procs :
        /\ \A i \in DOMAIN cmds[p] : Declared(cmds[p][i].iface)
        /\ OnlyUndeclaredEntries =>
             /\ cmds[p] = << >>
             /\ \A k \in DOMAIN errors[p] : errors[p][k] \notin EntryErrors
             /\ \A k \in DOMAIN vnet_err[p] : vnet_err[p][k] \notin EntryErrors
             /\ Events(p) \cap {"ifconfig_create", "ifconfig_addr", "route_add"} = {}
             /\ ~Has(trace[p], "EXCEPTION:vnet")

C18_Witness ==
    /\ OnlyUndeclaredEntries
    /\ conf.ip4_addr = << [iface |-> "vnet9", ip |-> "10.0.9.5/24"] >>
    /\ Has(trace["A"], "INFO:vnet_ok")
    /\ cmds["A"] = << >>

\* C19: when DHCP is requested (the flag, or DHCP in ip4_addr) provisioning
\* issues no static address command and no default-route command for any
\* NIC in either family, also for the entries that accompany accept_rtadv.
C19_DhcpMeansNoStatic ==
    \A p \in Procs :
        wants_dhcp(conf) =>
            \A i \in DOMAIN cmds[p] : cmds[p][i].op \notin {"addr", "route"}

\* DHCP with an ip6_addr of accept_rtadv and a static entry, and gateways set:
\* the interface was created and provisioning succeeded.
C19_Witness ==
    /\ conf.dhcp
    /\ HasIp(conf.ip6_addr, "accept_rtadv") /\ HasIp(conf.ip6_addr, "fd00::5/64")
    /\ conf.defaultrouter # "none" /\ conf.defaultrouter6 # "none"
    /\ Has(trace["A"], "INFO:vnet_ok")
    /\ CmdCount("A", "create", "vnet0", FALSE) = 1

----------------------------------------------------------------------------
\* C20: DHCP verification runs only with virtual networking and DHCP both
\* requested, after provisioning reported no error and after the start
\* command and the post-start hook succeeded; it fails, with exactly one
\* forced stop followed by the fatal error, exactly when the address read
\* back is all zeros or the inspection failed in any way; for every other
\* address the start goes on to the resource rules.
InspectionBad(p) ==
    readback[p].out # "ok" \/ readback[p].ip4_addr = <<0, 0, 0, 0>>

C20_DhcpVerification ==
    \A p \in Procs :
        /\ Has(trace[p], "dhcp_check") =>
             /\ conf.vnet /\ wants_dhcp(conf) /\ vnet_err[p] = << >>
             /\ Has(trace[p], "INFO:services_ok") /\ Has(trace[p], "INFO:poststart_ok")
             /\ readback[p] # NotRead
        /\ readback[p] # NotRead =>
             IF InspectionBad(p)
             THEN /\ pc[p] = "failed" /\ EndsWith(p, "EXCEPTION:dhcp")
                  /\ Stops(p) = 1
                  /\ trace[p][Len(trace[p]) - 1] = "IOCStop"
             ELSE /\ Stops(p) = 0
                  /\ Has(trace[p], "INFO:dhcp_address")
                  /\ pc[p] \in {"rctl", "last_started", "done"}

----------------------------------------------------------------------------
\* C21: after a successful launch the device-log symlink is seen to before
\* network provisioning, and a failure to create it is not fatal: the start
\* that attempted it goes on to provisioning and is never ended by it.
C21_SymlinkFailureNotFatal ==
    \A p \in Procs :
        /\ Has(trace[p], "symlink") => Launched(p)
        /\ \A i, j \in DOMAIN trace[p] :
             (trace[p][i] = "symlink" /\ trace[p][j] \in NetworkEvents) => i < j
        /\ ~Has(trace[p], "raise:OSError")

\* Vocabulary of C22..C25: the parameter list the start built and handed to
\* the launch, which is the list it wrote to the runtime configuration file.
Built == Has(trace["A"], "sync_changes")
Keys(ps) == { ps[i].key : i \in DOMAIN ps }
Range(ps) == { ps[i] : i \in DOMAIN ps }
ParamOf(prop) ==
    CASE prop = "mount_fdescfs" -> "mount.fdescfs"
      [] prop = "allow_mount_tmpfs" -> "allow.mount.tmpfs"
      [] prop = "allow_mlock" -> "allow.mlock"
      [] prop = "allow_mount_fusefs" -> "allow.mount.fusefs"
      [] prop = "allow_vmm" -> "allow.vmm"
      [] OTHER -> "?"
SysvKeys == {"sysvmsg", "sysvsem", "sysvshm"}
Over93 == {"mount_fdescfs", "allow_mount_tmpfs"}
From120 == {"allow_mlock", "allow_mount_fusefs", "allow_vmm"}

\* C22 as stated: every gated parameter is in the launch parameters if and
\* only if the host version is at or above its gate (above 9.3, above 10.3,
\* from 12.0).
C22_GatedIffVersion ==
    Built =>
        /\ \A prop \in Over93 : (ParamOf(prop) \in Keys(artifact)) <=> (host.version > 93)
        /\ \A k \in SysvKeys : (k \in Keys(artifact)) <=> (host.version > 103)
        /\ \A prop \in From120 : (ParamOf(prop) \in Keys(artifact)) <=> (host.version >= 120)

\* C22: below its gate a gated parameter is absent from the launch
\* parameters; at or above it the three System-V flags are present, and a
\* gated 0/1 parameter is present exactly when its property is 1.
C22_GatedParams ==
    Built =>
        /\ \A prop \in Over93 :
             (ParamOf(prop) \in Keys(artifact)) <=> (host.version > 93 /\ prop \in conf.on)
        /\ \A k \in SysvKeys : (k \in Keys(artifact)) <=> (host.version > 103)
        /\ \A prop \in From120 :
             (ParamOf(prop) \in Keys(artifact)) <=> (host.version >= 120 /\ prop \in conf.on)

C22_Witness ==
    /\ Built /\ host.version = 110
    /\ {"mount_fdescfs", "allow_mount_tmpfs", "allow_mlock"} \subseteq conf.on
    /\ {"mount.fdescfs", "allow.mount.tmpfs"} \subseteq Keys(artifact)
    /\ "allow.mlock" \notin Keys(artifact)
    /\ SysvKeys \subseteq Keys(artifact)

\* The 0/1 allow/mount properties that no version gate covers, with the
\* parameters they set.
UngatedParam ==
    [ allow_set_hostname |-> "allow.set_hostname", mount_devfs |-> "mount.devfs",
      allow_raw_sockets |-> "allow.raw_sockets", allow_sysvipc |-> "allow.sysvipc",
      allow_quotas |-> "allow.quotas", allow_socket_af |-> "allow.socket_af",
      allow_chflags |-> "allow.chflags", allow_mount |-> "allow.mount",
      allow_mount_devfs |-> "allow.mount.devfs", allow_mount_nullfs |-> "allow.mount.nullfs",
      allow_mount_procfs |-> "allow.mount.procfs", allow_mount_zfs |-> "allow.mount.zfs" ]
LaunchParameters == start_parameters(conf, host)

\* C23: a 0/1 allow/mount parameter whose value is 0 is absent from the
\* parameters of the launch command but is in the list written to the runtime
\* configuration file; one whose value is 1 is in both.
C23_OffParamsPersisted ==
    Built =>
        \A prop \in DOMAIN UngatedParam :
            IF prop \in conf.on
            THEN /\ Param(UngatedParam[prop], Scalar("1")) \in Range(LaunchParameters)
                 /\ Param(UngatedParam[prop], Scalar("1")) \in Range(artifact)
            ELSE /\ UngatedParam[prop] \notin Keys(LaunchParameters)
                 /\ Param(UngatedParam[prop], Scalar("0")) \in Range(artifact)

\* The scenario of C24: no vnet, no DHCP, ip4_addr "em0|192.168.1.50/24", a
\* host that does not hold the address yet.
Scenario24 ==
    /\ Built /\ ~conf.vnet /\ ~conf.dhcp
    /\ conf.ip4_addr = << [iface |-> "em0", ip |-> "192.168.1.50/24"] >>
    /\ collect_current_ips(host.ifaddresses4) = {}
WithKey(ps, key) == { x \in Range(ps) : x.key = key }

\* C24 as stated: in the scenario the one IPv4 address parameter built is
\* ip4.addr=192.168.1.50/24 and there is no vnet flag.
C24_ScenarioBareAddress ==
    Scenario24 =>
        /\ WithKey(artifact, "ip4.addr") = { Param("ip4.addr", Scalar("192.168.1.50/24")) }
        /\ "vnet" \notin Keys(artifact)

\* C24: in the scenario the one IPv4 address parameter built is
\* ip4.addr=em0|192.168.1.50/24, the entry as configured, and there is no
\* vnet flag.
C24_ScenarioKeepsInterface ==
    Scenario24 =>
        /\ WithKey(artifact, "ip4.addr")
             = { Param("ip4.addr", << [iface |-> "em0", ip |-> "192.168.1.50/24"] >>) }
        /\ "vnet" \notin Keys(artifact)

C24_Witness ==
    /\ Scenario24 /\ host.def_iface4 = "igb0"
    /\ Param("ip4.addr", << [iface |-> "em0", ip |-> "192.168.1.50/24"] >>) \in Range(artifact)

\* C25: the vnet flag and the vnet.interface directives are in the built
\* parameters exactly with virtual networking on (one directive per entry of
\* vnet_interfaces), the static parameters exactly with it off (the two
\* addresses when they are set), and with virtual networking on every address
\* command comes after the launch has succeeded.
StaticKeys == {"ip4.addr", "ip6.addr", "ip4.saddrsel", "ip6.saddrsel", "ip4", "ip6"}
C25_ModesExclusive ==
    /\ Built =>
         /\ ("vnet" \in Keys(artifact)) <=> conf.vnet
         /\ WithKey(artifact, "vnet.interface")
              = IF conf.vnet
                THEN { Param("vnet.interface", Scalar(conf.vnet_interfaces[k])) :
                         k \in DOMAIN conf.vnet_interfaces }
                ELSE {}
         /\ conf.vnet => StaticKeys \cap Keys(artifact) = {}
         /\ ~conf.vnet => {"ip4.saddrsel", "ip6.saddrsel", "ip4", "ip6"} \subseteq Keys(artifact)
         /\ ~conf.vnet => (("ip4.addr" \in Keys(artifact)) <=> (conf.ip4_addr # NoneAddr))
    /\ \A p \in Procs :
         conf.vnet =>
            /\ cmds[p] # << >> => Launched(p)
            /\ \A i \in DOMAIN trace[p] :
                 trace[p][i] = "ifconfig_addr" => \E j \in 1..(i - 1) : trace[p][j] = "jail_created"

C25_Witness ==
    /\ Built /\ conf.vnet /\ Len(conf.vnet_interfaces) = 2
    /\ Cardinality(WithKey(artifact, "vnet.interface")) = 2
    /\ Has(trace["A"], "ifconfig_addr")

\* C26: at the resource-rule stage the rules of the jail are removed before
\* the selected ones are applied in one call, and after a successful start
\* no rule that was there before the start is left, also when no resource
\* property is selected.
C26_NoOldRulesAfterStart ==
    \A p \in Procs :
        /\ \A i \in DOMAIN trace[p] :
             trace[p][i] = "rctl_set" => \E j \in 1..(i - 1) : trace[p][j] = "rctl_remove"
        /\ Count(trace[p], "rctl_set") <= 1
        /\ (pc[p] = "done" /\ Has(trace[p], "set_last_started")) => "old" \notin rules

\* C27: without virtual networking start_network returns no error, reads
\* neither the NIC nor the address configuration, and issues no command on
\* the host or in the jail.
C27_NoVnetNoProvisioning ==
    ~conf.vnet =>
        \A p \in Procs :
            /\ vnet_err[p] = << >> /\ errors[p] = << >>
            /\ ~Has(trace[p], "get:net_config")
            /\ \A e \in NetworkEvents : ~Has(trace[p], e)
            /\ cmds[p] = << >> /\ nic_log[p] = << >>
            /\ pc[p] # "net_nic"

C27_Witness ==
    /\ ~conf.vnet /\ pc["A"] = "zfs_attach" /\ Launched("A")

\* C28: an explicit vnet_default_interface that the host does not have makes
\* start_network return one error before any fabric is ensured and any pair
\* is created, and the start then stops the jail once and fails with the
\* provisioning failure.
BadDefaultIf ==
    conf.vnet /\ conf.vnet_default_interface \notin {"auto", "none"} \cup HostInterfaces
C28_UnknownDefaultIfAborts ==
    BadDefaultIf =>
        \A p \in Procs :
            /\ \A e \in NetworkEvents : ~Has(trace[p], e)
            /\ cmds[p] = << >> /\ nic_log[p] = << >> /\ pc[p] # "net_nic"
            /\ Has(trace[p], "get:net_config") =>
                 /\ vnet_err[p] = << "vnet_default_interface" >>
                 /\ pc[p] \in {"net_result", "failed"}
                 /\ pc[p] = "failed" =>
                      /\ Stops(p) = 1
                      /\ EndsWith(p, "EXCEPTION:vnet")
                      /\ trace[p][Len(trace[p]) - 1] = "IOCStop"

C28_Witness ==
    /\ BadDefaultIf /\ pc["A"] = "failed" /\ Stops("A") = 1
    /\ vnet_err["A"] = << "vnet_default_interface" >>
    /\ EndsWith("A", "EXCEPTION:vnet")

\* Vocabulary of C29 and C30: the account of the NIC loop of a start whose
\* loop has run to its end (the verdict is about to be taken).
LoopDone(p) == pc[p] = "net_result" /\ conf.vnet /\ ~BadDefaultIf
LoggedNics(p) == [k \in DOMAIN nic_log[p] |-> nic_log[p][k].nic]
LoggedErrs(p) == Concat([k \in DOMAIN nic_log[p] |-> nic_log[p][k].errs])
FabricFailures(l) == IF l.fabric_failed THEN 1 ELSE 0
NetgraphFailures(l) == IF l.fabric_failed /\ l.netgraph THEN 1 ELSE 0

\* C29 as stated: every failed command of a NIC, on the host or in the jail,
\* adds an error, the NICs after it are still processed, and the returned list
\* is the errors of all NICs in declaration order, empty exactly when no
\* command failed.
C29_EveryFailureCollected ==
    \A p \in Procs :
        /\ pc[p] = "net_nic" =>
             /\ LoggedNics(p) = SubSeq(conf.interfaces, 1, Len(nic_log[p]))
             /\ errors[p] = LoggedErrs(p)
        /\ LoopDone(p) =>
             /\ LoggedNics(p) = conf.interfaces
             /\ vnet_err[p] = LoggedErrs(p)
             /\ \A k \in DOMAIN nic_log[p] :
                  Len(nic_log[p][k].errs) = nic_log[p][k].failed + FabricFailures(nic_log[p][k])
             /\ (vnet_err[p] = << >>) <=>
                  \A k \in DOMAIN nic_log[p] :
                      nic_log[p][k].failed = 0 /\ ~nic_log[p][k].fabric_failed

\* C29: every failed command of a NIC other than the bridge create command of
\* the if_bridge backend adds an error, the NICs after it are still processed,
\* and the returned list is the errors of all NICs in declaration order, empty
\* exactly when none of those commands failed.
C29_FailuresCollected ==
    \A p \in Procs :
        /\ pc[p] = "net_nic" =>
             /\ LoggedNics(p) = SubSeq(conf.interfaces, 1, Len(nic_log[p]))
             /\ errors[p] = LoggedErrs(p)
        /\ LoopDone(p) =>
             /\ LoggedNics(p) = conf.interfaces
             /\ vnet_err[p] = LoggedErrs(p)
             /\ \A k \in DOMAIN nic_log[p] :
                  Len(nic_log[p][k].errs) = nic_log[p][k].failed + NetgraphFailures(nic_log[p][k])
             /\ (vnet_err[p] = << >>) <=>
                  \A k \in DOMAIN nic_log[p] :
                      nic_log[p][k].failed = 0 /\ NetgraphFailures(nic_log[p][k]) = 0

C29_Witness ==
    /\ LoopDone("A") /\ Len(conf.interfaces) = 2
    /\ nic_log["A"][1].failed = 1 /\ ~nic_log["A"][1].fabric_failed
    /\ nic_log["A"][2].fabric_failed /\ nic_log["A"][2].netgraph
    /\ Len(vnet_err["A"]) = 2

\* C30: with the if_bridge backend a failed bridge create command returns no
\* error and provisioning goes on; a default interface other than "none" is a
\* member of the bridge after the fabric was ensured, also when the bridge was
\* there before; an explicit interface the host does not have is fatal before
\* any create or attach command.
C30_BridgeFabric ==
    /\ \A p \in Procs : \A k \in DOMAIN nic_log[p] :
         LET l == nic_log[p][k] IN
         (~l.netgraph /\ ~l.raised) =>
            /\ Len(l.errs) = l.failed
            /\ l.default_if # "none" => l.member
    /\ (BadDefaultIf /\ ~conf.netgraph) =>
         \A gw \in {"none"} \cup HostInterfaces, cmd_ok \in BOOLEAN, was_member \in BOOLEAN :
             ensure_fabric(conf, gw, cmd_ok, was_member).evs = << "EXCEPTION:no_such_interface" >>

\* C33: for one jail and one parent interface, two different NIC indices in
\* 0..15 never get the same host-side address nor the same jail-side address.
OtherIndexCall(k) == [mac_call EXCEPT !.nic_offset = k, !.mac_a = << >>, !.mac_b = << >>]
C33_MacsDifferAcrossNics ==
    (mac_call.mac_a # << >> /\ mac_call.nic_offset \in 0..15) =>
        \A k \in (0..15) \ {mac_call.nic_offset} :
            /\ generate_mac_address_pair(OtherIndexCall(k)).mac_a # mac_call.mac_a
            /\ generate_mac_address_pair(OtherIndexCall(k)).mac_b # mac_call.mac_b

\* C35: check_aliases keeps the number and the order of the entries, leaves
\* an entry with "iface|" as it is, leaves an entry without it bare when it is
\* an address of a host interface that is not virtual and gives it the
\* family's default interface otherwise, returns the list unchanged without a
\* default gateway of the family, and applied to its own result changes
\* nothing.
AliasDefault == DefIface(host, alias_call.mode)
OnPhysicalIface == IfAddresses(host, alias_call.mode)["igb0"]
C35_AliasResolution ==
    alias_call.called =>
        LET in == alias_call.ip_addrs
            out == alias_call.out
        IN /\ Len(out) = Len(in)
           /\ \A k \in DOMAIN in :
                /\ out[k].ip = in[k].ip
                /\ in[k].iface # "" => out[k] = in[k]
                /\ (in[k].iface = "" /\ AliasDefault # "none") =>
                     IF in[k].ip \in OnPhysicalIface
                     THEN out[k] = in[k]
                     ELSE out[k] = [iface |-> AliasDefault, ip |-> in[k].ip]
           /\ AliasDefault = "none" => out = in
           /\ check_aliases(out, AliasDefault,
                            collect_current_ips(IfAddresses(host, alias_call.mode))) = out

C35_Witness ==
    /\ alias_call.called /\ alias_call.mode = "4" /\ host.def_iface4 = "igb0"
    /\ alias_call.ip_addrs = << [iface |-> "", ip |-> "192.168.1.50"], [iface |-> "", ip |-> "10.9.9.9"] >>
    /\ alias_call.out = << [iface |-> "", ip |-> "192.168.1.50"], [iface |-> "igb0", ip |-> "10.9.9.9"] >>

\* C34: with either backend the interface the DHCP verification inspects for
\* the first NIC is the interface start_network gave that NIC inside the
\* jail, so the verification never fails for want of the interface.
C34_DhcpInspectsProvisionedIface ==
    \A p \in Procs :
        readback[p] # NotRead =>
            /\ dhcp_interface(conf) = jail_iface(conf, conf.interfaces[1])
            /\ \E rb \in dhcp_readbacks(conf) : rb.out = "ok"

\* The bridge commands that were run, by kind.
NgCmds(op) == SelectSeq(ng.log, LAMBDA x : x.op = op)
NoNgError == \A k \in DOMAIN ng.results : ng.results[k].outcome # "error"

ProbeReturned == ng.call.pc \in {"attach1", "attach2"}
Attached(r) == r.outcome = "attached"

\* C32: the free-link probe returns the smallest index at or above its start
\* whose getstats fails; a call that attaches an ether member takes exactly
\* two link slots, the second above the first, and one that attaches any
\* other member exactly one; every slot taken was free on the bridge; and a
\* member that is on the bridge already gets no connect command.
C32_FreeLinks ==
    /\ ProbeReturned =>
         /\ ng.call.nextlink >= ng.call.start
         /\ ~getstats(ng, ng.call.nextlink)
         /\ \A k \in ng.call.start..(ng.call.nextlink - 1) : getstats(ng, k)
    /\ \A k \in DOMAIN ng.results :
         LET r == ng.results[k] IN
           /\ (Attached(r) /\ r.nodetype = "ether") =>
                Len(r.slots) = 2 /\ r.slots[2] > r.slots[1]
           /\ (Attached(r) /\ r.nodetype # "ether") => Len(r.slots) = 1
           /\ r.outcome = "already" => r.slots = << >>
    /\ \A k \in DOMAIN ng.log :
         ng.log[k].op \in {"connect", "mkpeer"} => ng.log[k].fresh
    /\ Len(NgCmds("connect")) + Len(NgCmds("mkpeer")) =
         Len(Concat([k \in DOMAIN ng.results |-> ng.results[k].slots])) + Len(ng.call.slots)

\* An ether member went onto a bridge that existed, past a link in use
\* between its two slots, and a later call found it on the bridge.
C32_Witness ==
    \E j, k \in DOMAIN ng.results :
        /\ j < k
        /\ Attached(ng.results[j]) /\ ng.results[j].nodetype = "ether"
        /\ ng.results[j].branch = "exists"
        /\ ng.results[j].slots[2] > ng.results[j].slots[1] + 1
        /\ ng.results[k].iface = ng.results[j].iface /\ ng.results[k].outcome = "already"

\* The first member of the fabric when the NIC turn e looks up the MTU.
FirstMember(e) ==
    IF host.bridge_members # << >> THEN host.bridge_members[1]
    ELSE IF e.member THEN e.default_if ELSE "none"
NicTurns(p) == { nic_log[p][k] : k \in DOMAIN nic_log[p] }
OnlyBridgeExists(e) == ~e.netgraph /\ ~e.raised /\ e.failed = 0

Terminated == pc["A"] \in {"done", "failed", "returned"}
InProbe == ng.call.pc \in {"probe1", "probe2"}
Aborted(p) == trace[p] # << >> /\ (Raises(trace[p]) \/ trace[p][Len(trace[p])] = "ERROR:hostid")

\* C36: when every command returns, a start ends, with last_started written
\* or aborted by a failure it reported, provided the bridge has a free link at
\* or above the index a probe starts from; when getstats answers for every
\* index, a start that enters the probe loop stays in it for ever and never
\* ends.
C36_Termination ==
    /\ <>(Terminated \/ (ng.every_busy /\ InProbe))
    /\ [](/\ pc["A"] = "done" => (store.last_started = 1 /\ ~Aborted("A"))
          /\ pc["A"] \in {"failed", "returned"} => (store.last_started = 0 /\ Aborted("A"))
          /\ InProbe => ~Terminated)
    /\ [][(ng.every_busy /\ InProbe) => InProbe']_vars

\* A start ended with last_started written after a probe went past the links
\* in use on the bridge.
C36_Witness ==
    /\ pc["A"] = "done" /\ store.last_started = 1
    /\ \E k \in DOMAIN ng.results :
         Attached(ng.results[k]) /\ ng.results[k].slots[1] >= 2

=============================================================================
